---- MODULE Spec2Model ----
(***************************************************************************)
(* A model of goviking: the session lifecycle (package session), the       *)
(* tiered context and its token window (package core), the hierarchical    *)
(* retriever (package retrieval), the AGFS lock and relation tables        *)
(* (package agfs), the message queues (package storage), the auto-saver,   *)
(* the auto-extractor, the memory deduper, the session compressor, the     *)
(* URI conversions and context files of AGFS, and the locks of the tiered  *)
(* context and its window.  Each part has its own specification over the   *)
(* shared variables.                                                       *)
(***************************************************************************)
EXTENDS Integers, Sequences, FiniteSets, TLC

VARIABLES
    session,    \* the Session struct: State, counters, ClosedAt
    call,       \* the last Session method called: what it saw and returned
    tc,         \* the TieredContext: the lists L0, L1, L2
    config,     \* the ContextWindowConfig: MaxTokens, MinL0Retention
    wcall,      \* the last TieredContext / ContextWindow call and its result
    rs,         \* the locals of recursiveSearch and the vector store it reads
    rcall,      \* what Retrieve returned, and the last pop of the loop
    reader,     \* a FitInWindow pass reading the tier lists one by one
    adders,     \* the goroutines inside Session.AddMessage
    agfs,       \* the AGFS lock, the goroutines inside AGFS operations
    qm,         \* the QueueManager, its workers and what Dequeue handed out
    saver,      \* the AutoSaver: its channels, goroutines and Stop callers
    ax,         \* the AutoExtractor: message count, config, last result
    dd,         \* one MemoryDeduper.Dedup call: input, LLM answers, output
    rel,        \* the relation table of one directory and the ids assigned
    fs,         \* the files and directories under the AGFS root, last Copy
    sc,         \* the SessionCompressor, the messages of its caller, its calls
    conv,       \* one URI of a caller and what the AGFS conversions make of it
    tlock,      \* tc.mu and w.mu, the goroutines inside tier and window calls
    bind        \* the context files of one URI, a WriteContext and a ReadContext

vars == <<session, call, tc, config, wcall, rs, rcall, reader, adders, agfs, qm,
          saver, ax, dd, rel, fs, sc, conv, tlock,
          bind>>

\* The parts that only their own operations touch.
moreParts == <<sc, conv, tlock, bind>>
\* The parts that the session, window and retrieval operations never touch.
otherParts == <<adders, agfs, qm, saver, ax, dd, rel, fs, moreParts>>
\* The parts that the operations of the other packages never touch.
coreParts == <<session, call, tc, config, wcall, rs, rcall, reader>>
\* The parts that the operations on moreParts never touch.
earlierParts == <<coreParts, adders, agfs, qm, saver, ax, dd, rel, fs>>

(***************************************************************************)
(* Bounds of the model.                                                    *)
(***************************************************************************)
MaxCount == 2          \* cap of every session counter
MaxTokenDelta == 1     \* largest argument of AddTokens
MaxContexts == 3       \* most contexts a tiered context holds at once
MaxBudget == 3         \* largest MaxTokens a window is configured with
MaxRetention == 2      \* largest MinL0Retention a window is configured with
MaxScore == 1          \* largest raw score the vector store reports
MaxLimit == 2          \* largest opts.Limit of a retrieval
MaxGoroutines == 2     \* goroutines calling into one object at a time
MaxMessages == 3       \* most messages enqueued in a run
MaxTicks == 2          \* most ticks of the auto-saver's ticker in a run
MaxAppends == 5        \* most messages appended to an auto-extractor
MaxImportance == 1     \* largest importance of a memory, in steps
MaxMemories == 3       \* most memories handed to one Dedup call
MaxLinks == 3          \* most Link calls on the directory in a run
MaxPasses == 1         \* most FitInWindow passes of the concurrent reader
MaxAbstractLen == 80   \* longest abstract that Compress is still called on
MaxReceived == 51      \* messages a session receives
MaxURILen == 3         \* characters of a URI after its prefix

(***************************************************************************)
(* Package session: Session and its methods.                               *)
(***************************************************************************)
StateActive == "active"
StatePaused == "paused"
StateClosed == "closed"

ErrNone == "nil"
ErrSessionClosed == "session closed"
ErrInvalidState == "invalid session state"

NewSession ==
    [ State             |-> StateActive,
      TotalTurns        |-> 0,
      TotalTokens       |-> 0,
      CompressionCount  |-> 0,
      ContextsUsed      |-> 0,
      SkillsUsed        |-> 0,
      MemoriesExtracted |-> 0,
      ClosedAt          |-> "nil" ]

NoCall == [ op |-> "NewSession", pre |-> StateActive, err |-> ErrNone, msg |-> FALSE ]

\* The call record of a method: the state it was called in, the error it
\* returned and whether it handed a message back to the caller.
Called(op, err, msg) ==
    /\ call' = [ op |-> op, pre |-> session.State, err |-> err, msg |-> msg ]
    /\ UNCHANGED <<tc, config, wcall, rs, rcall, reader, otherParts>>

\* AddMessage builds the message, counts the turn and returns the message.
\* It has no error result and does not look at State.
AddMessage ==
    /\ session.TotalTurns < MaxCount
    /\ session' = [session EXCEPT !.TotalTurns = @ + 1]
    /\ Called("AddMessage", ErrNone, TRUE)

AddToolCall ==
    /\ session.SkillsUsed < MaxCount
    /\ session' = [session EXCEPT !.SkillsUsed = @ + 1]
    /\ Called("AddToolCall", ErrNone, TRUE)

\* A Pause that does not check the state it is called in.
PauseUnguarded(s) ==
    [ s |-> [s EXCEPT !.State = StatePaused], err |-> ErrNone ]

PauseResult(s) ==
    IF s.State # StateActive
        THEN [ s |-> s, err |-> ErrInvalidState ]
        ELSE [ s |-> [s EXCEPT !.State = StatePaused], err |-> ErrNone ]

Pause ==
    /\ session' = PauseResult(session).s
    /\ Called("Pause", PauseResult(session).err, FALSE)

\* A Resume that does not check the state it is called in.
ResumeUnguarded(s) ==
    [ s |-> [s EXCEPT !.State = StateActive], err |-> ErrNone ]

ResumeResult(s) ==
    IF s.State # StatePaused
        THEN [ s |-> s, err |-> ErrInvalidState ]
        ELSE [ s |-> [s EXCEPT !.State = StateActive], err |-> ErrNone ]

Resume ==
    /\ session' = ResumeResult(session).s
    /\ Called("Resume", ResumeResult(session).err, FALSE)

\* A Close that forgets to set ClosedAt.
CloseWithoutClosedAt(s) ==
    IF s.State = StateClosed
        THEN [ s |-> s, err |-> ErrSessionClosed ]
        ELSE [ s |-> [s EXCEPT !.State = StateClosed], err |-> ErrNone ]

CloseResult(s) ==
    IF s.State = StateClosed
        THEN [ s |-> s, err |-> ErrSessionClosed ]
        ELSE [ s |-> [s EXCEPT !.State = StateClosed, !.ClosedAt = "set"],
               err |-> ErrNone ]

Close ==
    /\ session' = CloseResult(session).s
    /\ Called("Close", CloseResult(session).err, FALSE)

IncrementContextsUsed ==
    /\ session.ContextsUsed < MaxCount
    /\ session' = [session EXCEPT !.ContextsUsed = @ + 1]
    /\ Called("IncrementContextsUsed", ErrNone, FALSE)

IncrementMemoriesExtracted ==
    /\ session.MemoriesExtracted < MaxCount
    /\ session' = [session EXCEPT !.MemoriesExtracted = @ + 1]
    /\ Called("IncrementMemoriesExtracted", ErrNone, FALSE)

IncrementCompression ==
    /\ session.CompressionCount < MaxCount
    /\ session' = [session EXCEPT !.CompressionCount = @ + 1]
    /\ Called("IncrementCompression", ErrNone, FALSE)

\* tokens is an int64: nothing keeps it positive.
AddTokens ==
    \E tokens \in (0 - MaxTokenDelta)..MaxTokenDelta :
        /\ session.TotalTokens + tokens \in (0 - MaxCount)..MaxCount
        /\ session' = [session EXCEPT !.TotalTokens = @ + tokens]
        /\ Called("AddTokens", ErrNone, FALSE)

(***************************************************************************)
(* Package core: TieredContext.                                            *)
(***************************************************************************)
TierL0 == 0
TierL1 == 1
TierL2 == 2

URIs == {"viking://a", "viking://b"}
\* Byte lengths of the abstracts the callers supply.
AbstractLens == {0, 1, 5}
\* ContextTier is an int: a caller can hand in a tier outside L0..L2.
Tiers == TierL0..(TierL2 + 1)

\* The contexts handed to the tier operations: every URI and tier, one size.
TierContexts == [ URI : URIs, Tier : Tiers, AbstractLen : {1} ]
\* The contexts handed to the window: every size, the tiers L0..L2.
WindowContexts ==
    [ URI : {"viking://a"}, Tier : TierL0..TierL2, AbstractLen : AbstractLens ]

NilCtx == [ URI |-> "", Tier |-> TierL1, AbstractLen |-> 0 ]

NewTieredContext == [ L0 |-> <<>>, L1 |-> <<>>, L2 |-> <<>> ]

\* SimpleTokenCounter.CountTokens: (len(text) + 3) / 4.
CountTokens(len) == (len + 3) \div 4

RECURSIVE SumTokens(_)
SumTokens(ctxs) ==
    IF ctxs = <<>> THEN 0
    ELSE CountTokens(Head(ctxs).AbstractLen) + SumTokens(Tail(ctxs))

GetAll(t) == t.L0 \o t.L1 \o t.L2

Count(t) == Len(t.L0) + Len(t.L1) + Len(t.L2)

\* The index of the first context of the slice with this URI, 0 if none.
FirstIndex(slice, uri) ==
    IF \E i \in 1..Len(slice) : slice[i].URI = uri
        THEN CHOOSE i \in 1..Len(slice) :
                /\ slice[i].URI = uri
                /\ \A j \in 1..(i - 1) : slice[j].URI # uri
        ELSE 0

removeFromSlice(slice, uri) ==
    LET i == FirstIndex(slice, uri) IN
    IF i = 0 THEN [ slice |-> slice, ok |-> FALSE ]
    ELSE [ slice |-> SubSeq(slice, 1, i - 1) \o SubSeq(slice, i + 1, Len(slice)),
           ok |-> TRUE ]

\* The first context with this URI in the slices, in order; NilCtx if none.
findContextByURIInSlices(slices, uri) ==
    LET all == slices IN
    IF FirstIndex(all, uri) = 0 THEN NilCtx ELSE all[FirstIndex(all, uri)]

TieredAdd(t, ctx) ==
    CASE ctx.Tier = TierL0 -> [t EXCEPT !.L0 = Append(@, ctx)]
      [] ctx.Tier = TierL1 -> [t EXCEPT !.L1 = Append(@, ctx)]
      [] ctx.Tier = TierL2 -> [t EXCEPT !.L2 = Append(@, ctx)]
      [] OTHER             -> [t EXCEPT !.L1 = Append(@, ctx)]

TieredRemove(t, uri) ==
    LET r0 == removeFromSlice(t.L0, uri)
        r1 == removeFromSlice(t.L1, uri)
        r2 == removeFromSlice(t.L2, uri)
    IN  IF r0.ok THEN [ tc |-> [t EXCEPT !.L0 = r0.slice], ok |-> TRUE ]
        ELSE IF r1.ok THEN [ tc |-> [t EXCEPT !.L1 = r1.slice], ok |-> TRUE ]
        ELSE IF r2.ok THEN [ tc |-> [t EXCEPT !.L2 = r2.slice], ok |-> TRUE ]
        ELSE [ tc |-> t, ok |-> FALSE ]

\* MoveToTier, statement by statement.  The first removal takes the context
\* out of its list before anything has kept a pointer to it; the lookups
\* that follow only find another context with the same URI.
TieredMoveToTier(t, uri, tier) ==
    LET first == TieredRemove(t, uri)
        t1    == first.tc
        inL0  == removeFromSlice(t.L0, uri).ok
        ctxA  == IF inL0 THEN findContextByURIInSlices(t1.L0, uri) ELSE NilCtx
        ctx   == IF ctxA = NilCtx
                    THEN findContextByURIInSlices(GetAll(t1), uri)
                    ELSE ctxA
        t2    == [ L0 |-> removeFromSlice(t1.L0, uri).slice,
                   L1 |-> removeFromSlice(t1.L1, uri).slice,
                   L2 |-> removeFromSlice(t1.L2, uri).slice ]
        moved == [ctx EXCEPT !.Tier = tier]
    IN  IF ~first.ok THEN [ tc |-> t, ok |-> FALSE ]
        ELSE IF ctx = NilCtx THEN [ tc |-> t1, ok |-> FALSE ]
        ELSE [ tc |-> CASE tier = TierL0 -> [t2 EXCEPT !.L0 = Append(@, moved)]
                        [] tier = TierL1 -> [t2 EXCEPT !.L1 = Append(@, moved)]
                        [] tier = TierL2 -> [t2 EXCEPT !.L2 = Append(@, moved)]
                        [] OTHER         -> t2,
               ok |-> TRUE ]

(***************************************************************************)
(* Package core: ContextWindow.                                            *)
(***************************************************************************)
currentTokensUnsafe(t) == SumTokens(GetAll(t))

\* A retention rule that keeps one L0 context too many.
RetainOffByOne(ctx, result, cfg) ==
    ctx.Tier = TierL0 /\ Len(result) <= cfg.MinL0Retention

\* "Always keep minimum L0 contexts": the over-budget branch of the loop.
Retain(ctx, result, cfg) ==
    ctx.Tier = TierL0 /\ Len(result) < cfg.MinL0Retention

\* The trimming loop of FitInWindow over the contexts still to look at.
RECURSIVE FitTrim(_, _, _, _)
FitTrim(rest, result, currentTokens, cfg) ==
    IF rest = <<>> THEN result
    ELSE LET ctx    == Head(rest)
             tokens == CountTokens(ctx.AbstractLen)
         IN  IF currentTokens + tokens <= cfg.MaxTokens
                 THEN FitTrim(Tail(rest), Append(result, ctx),
                              currentTokens + tokens, cfg)
             ELSE IF Retain(ctx, result, cfg)
                 THEN FitTrim(Tail(rest), Append(result, ctx),
                              currentTokens + tokens, cfg)
             ELSE FitTrim(Tail(rest), result, currentTokens, cfg)

FitInWindowResult(t, cfg) ==
    LET prioritized == GetAll(t) IN
    IF SumTokens(prioritized) <= cfg.MaxTokens
        THEN prioritized
        ELSE FitTrim(prioritized, <<>>, 0, cfg)

\* A capacity check that forgets what the window already holds.
AddContextIgnoresCurrent(t, cfg, ctx) ==
    IF CountTokens(ctx.AbstractLen) > cfg.MaxTokens
        THEN [ tc |-> t, ok |-> FALSE ]
        ELSE [ tc |-> TieredAdd(t, ctx), ok |-> TRUE ]

AddContextResult(t, cfg, ctx) ==
    IF currentTokensUnsafe(t) + CountTokens(ctx.AbstractLen) > cfg.MaxTokens
        THEN [ tc |-> t, ok |-> FALSE ]
        ELSE [ tc |-> TieredAdd(t, ctx), ok |-> TRUE ]

NoWCall == [ op |-> "NewContextWindow", ctx |-> NilCtx, ok |-> TRUE, result |-> <<>> ]

\* A FitInWindow pass reads the tiers by GetL0, GetL1 and GetL2, each under
\* its own RLock of the tiered context.  The reader keeps the tiered context
\* as it was when the pass began, the lists it has read, the URIs that a
\* MoveToTier to one of L0..L2 has moved during the pass, and whether any
\* other call was made on the lists during the pass.
NoReader ==
    [ pc |-> "idle", before |-> NewTieredContext, seen |-> <<>>,
      moved |-> {}, disturbed |-> FALSE, passes |-> 0 ]

Overlapped(r, op, ctx, ok) ==
    IF r.pc = "idle" \/ op = "FitInWindow" THEN r
    ELSE IF op = "MoveToTier" /\ ok /\ ctx.Tier \in TierL0..TierL2
        THEN [r EXCEPT !.moved = @ \cup {ctx.URI}]
    ELSE [r EXCEPT !.disturbed = TRUE]

WCalled(op, ctx, ok, result) ==
    /\ wcall' = [ op |-> op, ctx |-> ctx, ok |-> ok, result |-> result ]
    /\ reader' = Overlapped(reader, op, ctx, ok)
    /\ UNCHANGED <<session, call, config, rs, rcall, otherParts>>

Add(inputs) ==
    \E ctx \in inputs :
        /\ Count(tc) < MaxContexts
        /\ tc' = TieredAdd(tc, ctx)
        /\ WCalled("Add", ctx, TRUE, <<>>)

AddContext(inputs) ==
    \E ctx \in inputs :
        /\ Count(tc) < MaxContexts
        /\ tc' = AddContextResult(tc, config, ctx).tc
        /\ WCalled("AddContext", ctx, AddContextResult(tc, config, ctx).ok, <<>>)

Remove ==
    \E uri \in URIs :
        /\ tc' = TieredRemove(tc, uri).tc
        /\ WCalled("Remove", [NilCtx EXCEPT !.URI = uri],
                   TieredRemove(tc, uri).ok, <<>>)

MoveToTier ==
    \E uri \in URIs, tier \in Tiers :
        /\ tc' = TieredMoveToTier(tc, uri, tier).tc
        /\ WCalled("MoveToTier", [NilCtx EXCEPT !.URI = uri, !.Tier = tier],
                   TieredMoveToTier(tc, uri, tier).ok, <<>>)

FitInWindow ==
    /\ tc' = tc
    /\ WCalled("FitInWindow", NilCtx, TRUE, FitInWindowResult(tc, config))

\* sortL0ByActivity, sortL1ByActivity, sortL2ByActivity: sort.Slice by
\* ActiveCount, highest first.  sort.Slice is not stable, so contexts of
\* equal ActiveCount come out in any order: the set of possible outcomes.
sortByActivity(ctxs) ==
    LET n == Len(ctxs)
        perms == { f \in [1..n -> 1..n] : \A i, j \in 1..n : i # j => f[i] # f[j] }
    IN  { [i \in 1..n |-> ctxs[f[i]]] : f \in
            { g \in perms : \A i, j \in 1..n :
                i < j => ctxs[g[i]].ActiveCount >= ctxs[g[j]].ActiveCount } }

\* The loops of fitInWindowUnsafe over L1 and over L2: a context is taken
\* if it still fits.
RECURSIVE FitIfSpace(_, _, _)
FitIfSpace(rest, result, cfg) ==
    IF rest = <<>> THEN result
    ELSE IF SumTokens(result) + CountTokens(Head(rest).AbstractLen) <= cfg.MaxTokens
        THEN FitIfSpace(Tail(rest), Append(result, Head(rest)), cfg)
    ELSE FitIfSpace(Tail(rest), result, cfg)

\* fitInWindowUnsafe: every L0 context, then L1 and L2 as space permits.
fitInWindowUnsafe(t, cfg) == FitIfSpace(t.L2, FitIfSpace(t.L1, t.L0, cfg), cfg)

OptimizeWindow ==
    \E l0 \in sortByActivity(tc.L0), l1 \in sortByActivity(tc.L1),
       l2 \in sortByActivity(tc.L2) :
        /\ tc' = [ L0 |-> l0, L1 |-> l1, L2 |-> l2 ]
        /\ WCalled("OptimizeWindow", NilCtx, TRUE, fitInWindowUnsafe(tc', config))

\* ApproachingLimit, with the CompressionRatio 0.9 of the default
\* configuration: threshold := int(float64(MaxTokens) * CompressionRatio).
ApproachingLimit(t, cfg) ==
    currentTokensUnsafe(t) >= (cfg.MaxTokens * 9) \div 10

\* CompressText on an abstract of len bytes: "" stays ""; any other text
\* is gzipped and the gzip stream base64-encoded.  For a short text that
\* deflate cannot shorten the stream is the 10-byte header, one fixed
\* Huffman block and the empty closing block (len + 6 bytes) and the
\* 8-byte trailer; base64 writes 4 characters for every 3 bytes.
CompressText(len) ==
    IF len = 0 THEN 0 ELSE 4 * ((len + 24 + 2) \div 3)

\* Compress: the abstract of every L2 context, then of every L1 context,
\* is replaced by its CompressText.
Compress ==
    LET replaced(ctxs) ==
            [ i \in 1..Len(ctxs) |->
                [ctxs[i] EXCEPT !.AbstractLen = CompressText(@)] ]
    IN  /\ \A i \in 1..Len(GetAll(tc)) : GetAll(tc)[i].AbstractLen <= MaxAbstractLen
        /\ tc' = [tc EXCEPT !.L2 = replaced(@), !.L1 = replaced(@)]
        /\ WCalled("Compress", NilCtx, TRUE, <<>>)

\* The three reads of a FitInWindow pass, as separate steps: MoveToTier
\* holds the write lock of the tiered context, so it runs before or after
\* each read, never during one.
FitGetL0 ==
    /\ reader.pc = "idle"
    /\ reader.passes < MaxPasses
    /\ reader' = [ pc |-> "L1", before |-> tc, seen |-> <<tc.L0>>,
                   moved |-> {}, disturbed |-> FALSE,
                   passes |-> reader.passes + 1 ]
    /\ UNCHANGED <<session, call, tc, config, wcall, rs, rcall, otherParts>>

FitGetL1 ==
    /\ reader.pc = "L1"
    /\ reader' = [reader EXCEPT !.pc = "L2", !.seen = Append(@, tc.L1)]
    /\ UNCHANGED <<session, call, tc, config, wcall, rs, rcall, otherParts>>

FitGetL2 ==
    /\ reader.pc = "L2"
    /\ reader' = [reader EXCEPT !.pc = "idle", !.seen = Append(@, tc.L2)]
    /\ UNCHANGED <<session, call, tc, config, wcall, rs, rcall, otherParts>>

(***************************************************************************)
(* Package retrieval: HierarchicalRetriever.                                *)
(***************************************************************************)
MaxConvergenceRounds == 3
\* ScorePropagationAlpha = 0.5, as the fraction AlphaNum / AlphaDen.
AlphaNum == 1
AlphaDen == 2
\* The default SearchOptions: ScoreThreshold 0.0, ScoreGTE false.
ScoreThreshold == 0
ScoreGTE == FALSE

RootURI == "viking://resources"
\* The entries of the vector store, in the order a search reports them.
NodeOrder == <<"viking://resources/a", "viking://resources/b", "viking://resources/c">>
RNodes == { NodeOrder[i] : i \in 1..Len(NodeOrder) }

\* Scores are float64 in [0,1]; the model counts them in units of
\* 1 / 2^(Len(NodeOrder) + 1) of the largest raw score step, so that every
\* propagated score of a traversal is an exact integer.
ScoreUnit == 2 ^ (Len(NodeOrder) + 1)

\* A vector store: for each entry its parent_uri, raw score and is_leaf.
\* A store either applies the parent_uri filter of a search, or, like
\* InMemoryVectorStore, ignores it and answers with all its entries by
\* score.
NoFilterParents == [n \in RNodes |-> RootURI]

Stores ==
    [ parent  : { f \in [RNodes -> {RootURI} \cup RNodes] : \A n \in RNodes : f[n] # n },
      score   : [RNodes -> 0..MaxScore],
      leaf    : [RNodes -> BOOLEAN],
      filters : {TRUE} ]
    \cup
    [ parent  : {NoFilterParents},
      score   : [RNodes -> 0..MaxScore],
      leaf    : [RNodes -> BOOLEAN],
      filters : {FALSE} ]

RECURSIVE InsertByScore(_, _)
InsertByScore(sorted, x) ==
    IF sorted = <<>> THEN <<x>>
    ELSE IF x.Score > Head(sorted).Score THEN <<x>> \o sorted
    ELSE <<Head(sorted)>> \o InsertByScore(Tail(sorted), x)

\* sort.Slice by score descending (an insertion sort at these sizes).
RECURSIVE SortByScore(_)
SortByScore(results) ==
    IF results = <<>> THEN <<>>
    ELSE InsertByScore(SortByScore(SubSeq(results, 1, Len(results) - 1)),
                       results[Len(results)])

RECURSIVE SelectChildren(_, _, _)
SelectChildren(store, parentURI, i) ==
    IF i > Len(NodeOrder) THEN <<>>
    ELSE LET n == NodeOrder[i] IN
         (IF ~store.filters \/ store.parent[n] = parentURI
             THEN << [ URI |-> n, Score |-> store.score[n] * ScoreUnit,
                       IsLeaf |-> store.leaf[n] ] >>
             ELSE <<>>) \o SelectChildren(store, parentURI, i + 1)

\* vectorStore.Search with the filter parent_uri = parentURI; the answer
\* is ordered by score and a positive limit cuts it.
searchChildren(store, parentURI, limit) ==
    LET all == SortByScore(SelectChildren(store, parentURI, 1)) IN
    IF limit > 0 /\ Len(all) > limit THEN SubSeq(all, 1, limit) ELSE all

\* SearchResultHeap.Less.
Less(x, y) == x.Score < y.Score

Swap(h, i, j) == [h EXCEPT ![i] = h[j], ![j] = h[i]]

\* container/heap up and down, on 1-based positions.
RECURSIVE up(_, _)
up(h, j) ==
    IF j = 1 \/ ~Less(h[j], h[j \div 2]) THEN h
    ELSE up(Swap(h, j \div 2, j), j \div 2)

RECURSIVE down(_, _, _)
down(h, i, n) ==
    IF 2 * i > n THEN h
    ELSE LET j1 == 2 * i
             j  == IF j1 + 1 <= n /\ Less(h[j1 + 1], h[j1]) THEN j1 + 1 ELSE j1
         IN  IF ~Less(h[j], h[i]) THEN h ELSE down(Swap(h, i, j), j, n)

heapPush(h, x) == up(Append(h, x), Len(h) + 1)

\* heap.Pop: the popped item and the heap left.
heapPop(h) ==
    LET n  == Len(h)
        h2 == down(Swap(h, 1, n), 1, n - 1)
    IN  [ item |-> h2[n], heap |-> SubSeq(h2, 1, n - 1) ]

PropagatedScore(childScore, currentScore) ==
    (AlphaNum * childScore + (AlphaDen - AlphaNum) * currentScore) \div AlphaDen

thresholdPassed(finalScore) ==
    IF ScoreGTE THEN finalScore >= ScoreThreshold ELSE finalScore > ScoreThreshold

SeqURIs(results) == { results[i].URI : i \in 1..Len(results) }

\* The loop over the children of the popped directory: what is collected
\* and what is queued.
RECURSIVE ProcessChildren(_, _, _, _)
ProcessChildren(children, currentScore, collected, dirQueue) ==
    IF children = <<>> THEN [ collected |-> collected, dirQueue |-> dirQueue ]
    ELSE LET child      == Head(children)
             finalScore == PropagatedScore(child.Score, currentScore)
             c2 == IF child.URI \in SeqURIs(collected) THEN collected
                   ELSE Append(collected, [ URI |-> child.URI, Score |-> finalScore,
                                            IsLeaf |-> child.IsLeaf ])
             q2 == IF child.IsLeaf THEN dirQueue
                   ELSE heapPush(dirQueue, [ URI |-> child.URI, Score |-> finalScore ])
         IN  IF ~thresholdPassed(finalScore)
                 THEN ProcessChildren(Tail(children), currentScore, collected, dirQueue)
                 ELSE ProcessChildren(Tail(children), currentScore, c2, q2)

\* A top-k that ranks the candidates by score before cutting.
getTopKRanked(results, k) ==
    IF k >= Len(results) THEN results ELSE SubSeq(SortByScore(results), 1, k)

\* getTopK: the first k results in the order they were collected.
getTopK(results, k) ==
    IF k >= Len(results) THEN results ELSE SubSeq(results, 1, k)

\* A final cut that forgets the limit.
TruncateNone(results, k) == results

\* The cut of the sorted candidates to opts.Limit.
Truncate(results, k) ==
    IF Len(results) > k THEN SubSeq(results, 1, k) ELSE results

NoItem == [ URI |-> "", Score |-> 0 ]

\* Trajectory.Parents after the loop over the children of currentURI:
\* AddEdge(currentURI, child.URI) is called for every child that passes the
\* threshold and is not a leaf, and sets Parents[child.URI] = currentURI.
\* A URI without an entry in the map has the parent "".
AddEdges(parents, children, currentURI, currentScore) ==
    [ u \in DOMAIN parents |->
        IF \E i \in 1..Len(children) :
              /\ children[i].URI = u
              /\ ~children[i].IsLeaf
              /\ thresholdPassed(PropagatedScore(children[i].Score, currentScore))
            THEN currentURI
            ELSE parents[u] ]

\* Trajectory.GetAncestors: the loop follows Parents from uri until a URI
\* has no entry.  The loop has no other exit: once it has taken more steps
\* than there are entries it is on a cycle and never returns, which the
\* result <<"...">> stands for.
RECURSIVE AncestorsFrom(_, _, _)
AncestorsFrom(parents, current, steps) ==
    IF current \notin DOMAIN parents \/ parents[current] = "" THEN <<>>
    ELSE IF steps > Cardinality(DOMAIN parents) THEN <<"...">>
    ELSE LET rest == AncestorsFrom(parents, parents[current], steps + 1) IN
         IF rest = <<"...">> THEN rest ELSE Append(rest, parents[current])

GetAncestors(parents, uri) == AncestorsFrom(parents, uri, 1)

\* ThinkingTrace.AddEvent: an event of the type.  No AddEvent call of the
\* retriever is handed an error, so error, which says whether the event
\* reports a failure of the provider, is FALSE in every event.
TraceEvent(type) == [ type |-> type, error |-> FALSE ]

\* The state of recursiveSearch when the loop is first entered: the queue
\* holds the starting points, nothing is visited or collected.
RetrieveStart(store, limit) ==
    [ pc                |-> "loop",
      Query             |-> "q",
      store             |-> store,
      Limit             |-> limit,
      ctxDone           |-> FALSE,
      dirQueue          |-> heapPush(<<>>, [ URI |-> RootURI, Score |-> 0 ]),
      visited           |-> {},
      collected         |-> <<>>,
      prevTopKURIs      |-> {},
      convergenceRounds |-> 0,
      depth             |-> 0,
      converged         |-> FALSE,
      Parents           |-> [n \in RNodes |-> ""] ]

\* What the caller of Retrieve has seen so far, and the bookkeeping of the
\* rounds: the last pop with the queue it came from, and for how many
\* rounds in a row the ranked top-limit set has stayed the same.
\* trace is the ThinkingTrace, without the events of the loop over the
\* children (candidate_excluded, candidate_selected, directory_queued) and
\* without convergence_check; when the loop is entered it holds the event
\* "Starting retrieval" that Retrieve has added.  failures counts the
\* searches of the vector store that returned an error.
NoRCall ==
    [ returned     |-> FALSE,
      err          |-> ErrNone,
      result       |-> <<>>,
      popped       |-> NoItem,
      frontier     |-> <<>>,
      seen         |-> {},
      rankedPrev   |-> {},
      rankedRounds |-> 0,
      trace        |-> <<TraceEvent("search_directory_start")>>,
      failures     |-> 0 ]

\* ctx is cancelled by the caller while the traversal runs.
Cancel ==
    /\ rs.pc = "loop"
    /\ ~rs.ctxDone
    /\ rs' = [rs EXCEPT !.ctxDone = TRUE]
    /\ UNCHANGED <<session, call, tc, config, wcall, rcall, reader, otherParts>>

\* An iteration that finds ctx done: recursiveSearch returns (collected,
\* ctx.Err()) and Retrieve returns (nil, error).
IterateCancelled ==
    /\ rs.pc = "loop"
    /\ Len(rs.dirQueue) > 0
    /\ rs.ctxDone
    /\ rs' = [rs EXCEPT !.pc = "done"]
    /\ rcall' = [rcall EXCEPT !.returned = TRUE, !.err = "context canceled",
                              !.result = <<>>]
    /\ UNCHANGED <<session, call, tc, config, wcall, reader, otherParts>>

\* An iteration that pops a URI already visited: continue.
IterateVisited ==
    /\ rs.pc = "loop"
    /\ Len(rs.dirQueue) > 0
    /\ ~rs.ctxDone
    /\ heapPop(rs.dirQueue).item.URI \in rs.visited
    /\ rs' = [rs EXCEPT !.dirQueue = heapPop(rs.dirQueue).heap]
    /\ rcall' = [rcall EXCEPT !.popped = heapPop(rs.dirQueue).item,
                              !.frontier = rs.dirQueue,
                              !.seen = rs.visited]
    /\ UNCHANGED <<session, call, tc, config, wcall, reader, otherParts>>

\* A full iteration: pop, mark visited, search and process the children,
\* check convergence.
Iterate ==
    /\ rs.pc = "loop"
    /\ Len(rs.dirQueue) > 0
    /\ ~rs.ctxDone
    /\ heapPop(rs.dirQueue).item.URI \notin rs.visited
    /\ LET pop      == heapPop(rs.dirQueue)
           children == searchChildren(rs.store, pop.item.URI, rs.Limit * 2)
           after    == ProcessChildren(children, pop.item.Score,
                                       rs.collected, pop.heap)
           currentTopKURIs == SeqURIs(getTopK(after.collected, rs.Limit))
           same     == /\ currentTopKURIs = rs.prevTopKURIs
                       /\ Cardinality(currentTopKURIs) >= rs.Limit
           rounds   == IF same THEN rs.convergenceRounds + 1 ELSE 0
           stop     == same /\ rounds >= MaxConvergenceRounds
           ranked   == SeqURIs(getTopKRanked(after.collected, rs.Limit))
           rankedSame == /\ ranked = rcall.rankedPrev
                         /\ Cardinality(ranked) >= rs.Limit
       IN  /\ rs' = [rs EXCEPT
                       !.dirQueue = after.dirQueue,
                       !.visited = @ \cup {pop.item.URI},
                       !.collected = after.collected,
                       !.prevTopKURIs = IF stop THEN @ ELSE currentTopKURIs,
                       !.convergenceRounds = rounds,
                       !.depth = IF stop THEN @ ELSE @ + 1,
                       !.converged = stop,
                       !.pc = IF stop THEN "sort" ELSE "loop",
                       !.Parents = AddEdges(@, children, pop.item.URI,
                                            pop.item.Score)]
           /\ rcall' = [rcall EXCEPT
                       !.popped = pop.item,
                       !.frontier = rs.dirQueue,
                       !.seen = rs.visited,
                       !.rankedPrev = ranked,
                       !.rankedRounds = IF rankedSame THEN @ + 1 ELSE 0,
                       !.trace = Append(@, TraceEvent("search_directory_start"))
                                 \o (IF stop THEN <<TraceEvent("search_converged")>>
                                              ELSE <<>>)]
    /\ UNCHANGED <<session, call, tc, config, wcall, reader, otherParts>>

\* The loop has ended: sort by score, cut to the limit, and Retrieve
\* returns the matched contexts.
Finish ==
    /\ \/ rs.pc = "sort"
       \/ rs.pc = "loop" /\ Len(rs.dirQueue) = 0
    /\ rs' = [rs EXCEPT !.pc = "done",
                        !.collected = Truncate(SortByScore(@), rs.Limit)]
    /\ rcall' = [rcall EXCEPT !.returned = TRUE, !.err = ErrNone,
                              !.result = Truncate(SortByScore(rs.collected), rs.Limit),
                              !.trace = Append(@, TraceEvent("search_summary"))]
    /\ UNCHANGED <<session, call, tc, config, wcall, reader, otherParts>>

\* An iteration whose searchChildren returns an error: the directory is
\* popped, marked visited and its start event added; then continue, past
\* the convergence check and depth++.
IterateSearchFails ==
    /\ rs.pc = "loop"
    /\ Len(rs.dirQueue) > 0
    /\ ~rs.ctxDone
    /\ heapPop(rs.dirQueue).item.URI \notin rs.visited
    /\ LET pop == heapPop(rs.dirQueue) IN
       /\ rs' = [rs EXCEPT !.dirQueue = pop.heap,
                           !.visited = @ \cup {pop.item.URI}]
       /\ rcall' = [rcall EXCEPT
                       !.popped = pop.item,
                       !.frontier = rs.dirQueue,
                       !.seen = rs.visited,
                       !.trace = Append(@, TraceEvent("search_directory_start")),
                       !.failures = @ + 1]
    /\ UNCHANGED <<session, call, tc, config, wcall, reader, otherParts>>

(***************************************************************************)
(* Package agfs: the AGFS-wide RWMutex and the operations on the store.    *)
(***************************************************************************)
Goroutines == 1..MaxGoroutines

\* Each operation as the steps it takes, in order: taking and releasing
\* a.mu, and the calls into the store (os.Stat, os.ReadDir, os.ReadFile,
\* os.WriteFile, os.MkdirAll, os.Chtimes) as "read" or "write".
\*   WriteFile: Mkdir of the parent, which takes and releases a.mu around
\*     os.Stat and os.MkdirAll; then Lock, os.WriteFile, Unlock.
\*   List: RLock, os.Stat and os.ReadDir, RUnlock.
\*   ReadAbstract: os.Stat, then os.ReadFile; a.mu is not taken.
\*   WriteAbstract: Mkdir, which takes and releases a.mu; then os.WriteFile
\*     with a.mu not held.
\*   Touch of a file: os.Stat, then os.WriteFile or os.Chtimes; a.mu is not
\*     taken.
Steps ==
    [ WriteFile     |-> <<"Lock", "write", "Unlock", "Lock", "write", "Unlock">>,
      List          |-> <<"RLock", "read", "RUnlock">>,
      ReadAbstract  |-> <<"read", "read">>,
      WriteAbstract |-> <<"Lock", "write", "Unlock", "write">>,
      Touch         |-> <<"read", "write">> ]

\* No goroutine is inside an operation, nobody holds a.mu.
NewAGFS ==
    [ writer  |-> 0,
      readers |-> {},
      g       |-> [t \in Goroutines |-> [ op |-> "none", pc |-> 1, access |-> "none" ]] ]

\* The step goroutine t is about to take, "return" when its operation is over.
NextStep(t) ==
    LET me == agfs.g[t] IN
    IF me.op = "none" THEN "none"
    ELSE IF me.pc > Len(Steps[me.op]) THEN "return"
    ELSE Steps[me.op][me.pc]

AGFSFrame == UNCHANGED <<coreParts, adders, qm, saver, ax, dd, rel, fs, moreParts>>

AGFSCall ==
    \E t \in Goroutines, op \in DOMAIN Steps :
        /\ agfs.g[t].op = "none"
        /\ agfs' = [agfs EXCEPT !.g[t] = [ op |-> op, pc |-> 1, access |-> "none" ]]
        /\ AGFSFrame

AGFSLock ==
    \E t \in Goroutines :
        /\ NextStep(t) = "Lock"
        /\ agfs.writer = 0 /\ agfs.readers = {}
        /\ agfs' = [agfs EXCEPT !.writer = t, !.g[t].pc = @ + 1]
        /\ AGFSFrame

AGFSUnlock ==
    \E t \in Goroutines :
        /\ NextStep(t) = "Unlock"
        /\ agfs' = [agfs EXCEPT !.writer = 0, !.g[t].pc = @ + 1]
        /\ AGFSFrame

AGFSRLock ==
    \E t \in Goroutines :
        /\ NextStep(t) = "RLock"
        /\ agfs.writer = 0
        /\ agfs' = [agfs EXCEPT !.readers = @ \cup {t}, !.g[t].pc = @ + 1]
        /\ AGFSFrame

AGFSRUnlock ==
    \E t \in Goroutines :
        /\ NextStep(t) = "RUnlock"
        /\ agfs' = [agfs EXCEPT !.readers = @ \ {t}, !.g[t].pc = @ + 1]
        /\ AGFSFrame

\* A call into the store begins ...
AGFSBegin ==
    \E t \in Goroutines :
        /\ NextStep(t) \in {"read", "write"}
        /\ agfs.g[t].access = "none"
        /\ agfs' = [agfs EXCEPT !.g[t].access = NextStep(t)]
        /\ AGFSFrame

\* ... and ends.
AGFSEnd ==
    \E t \in Goroutines :
        /\ agfs.g[t].access # "none"
        /\ agfs' = [agfs EXCEPT !.g[t].access = "none", !.g[t].pc = @ + 1]
        /\ AGFSFrame

AGFSReturn ==
    \E t \in Goroutines :
        /\ NextStep(t) = "return"
        /\ agfs' = [agfs EXCEPT !.g[t] = [ op |-> "none", pc |-> 1, access |-> "none" ]]
        /\ AGFSFrame

(***************************************************************************)
(* Package storage: QueueManager and the workers of MessageProcessor.      *)
(***************************************************************************)
MessageStatusPending == "pending"
MessageStatusProcessing == "processing"
MessageStatusCompleted == "completed"
MessageStatusFailed == "failed"

ErrQueueNotFound == "queue not found"
ErrMessageNotFound == "message not found"
ErrDependencyNotMet == "dependency not met"

QueueNames == {"q1"}
\* Message ids are fresh UUIDs; the model numbers them in the order they
\* are drawn.  0 is an id that no message has.
MessageIDs == 1..MaxMessages
NoMessage == [ ID |-> 0, Dependencies |-> {}, Status |-> MessageStatusPending ]

\* Every message of every queue, as a set.
AllMessages(queues) ==
    UNION { { queues[q][i] : i \in 1..Len(queues[q]) } : q \in DOMAIN queues }

\* A dependency check that is content with any status of the prerequisite.
dependenciesFound(queues, deps) ==
    \A depID \in deps : \E msg \in AllMessages(queues) : msg.ID = depID

dependenciesMet(queues, deps) ==
    \A depID \in deps :
        \E msg \in AllMessages(queues) :
            msg.ID = depID /\ msg.Status = MessageStatusCompleted

\* The index of the first ready message of a queue, 0 if there is none.
FirstReady(queues, queue) ==
    LET ready(i) == /\ queues[queue][i].Status = MessageStatusPending
                    /\ \/ queues[queue][i].Dependencies = {}
                       \/ dependenciesMet(queues, queues[queue][i].Dependencies)
    IN  IF \E i \in 1..Len(queues[queue]) : ready(i)
            THEN CHOOSE i \in 1..Len(queues[queue]) :
                    ready(i) /\ \A j \in 1..(i - 1) : ~ready(j)
            ELSE 0

EnqueueResult(queues, queue, id, deps) ==
    IF queue \notin DOMAIN queues
        THEN [ queues |-> queues, err |-> ErrQueueNotFound ]
    ELSE IF deps # {} /\ ~dependenciesMet(queues, deps)
        THEN [ queues |-> queues, err |-> ErrDependencyNotMet ]
    ELSE [ queues |-> [queues EXCEPT ![queue] =
                          Append(@, [ ID |-> id, Dependencies |-> deps,
                                      Status |-> MessageStatusPending ])],
           err |-> ErrNone ]

\* A Dequeue that hands the first ready message out and leaves it in place.
DequeueLeavesMessage(queues, queue) ==
    IF queue \notin DOMAIN queues
        THEN [ queues |-> queues, msg |-> NoMessage, err |-> ErrQueueNotFound ]
    ELSE IF FirstReady(queues, queue) = 0
        THEN [ queues |-> queues, msg |-> NoMessage, err |-> ErrNone ]
    ELSE [ queues |-> queues,
           msg |-> [queues[queue][FirstReady(queues, queue)] EXCEPT
                       !.Status = MessageStatusProcessing],
           err |-> ErrNone ]

DequeueResult(queues, queue) ==
    IF queue \notin DOMAIN queues
        THEN [ queues |-> queues, msg |-> NoMessage, err |-> ErrQueueNotFound ]
    ELSE LET i == FirstReady(queues, queue)
             q == queues[queue]
         IN  IF i = 0
                 THEN [ queues |-> queues, msg |-> NoMessage, err |-> ErrNone ]
                 ELSE [ queues |-> [queues EXCEPT ![queue] =
                                      SubSeq(q, 1, i - 1) \o SubSeq(q, i + 1, Len(q))],
                        msg |-> [q[i] EXCEPT !.Status = MessageStatusProcessing],
                        err |-> ErrNone ]

\* Complete and Fail: the first message with the id, looked up in the
\* queues, gets the status; a message no queue holds is not found.
SetStatus(queues, msgID, status) ==
    IF \E msg \in AllMessages(queues) : msg.ID = msgID
        THEN [ queues |-> [q \in DOMAIN queues |->
                              [i \in 1..Len(queues[q]) |->
                                  IF queues[q][i].ID = msgID
                                      THEN [queues[q][i] EXCEPT !.Status = status]
                                      ELSE queues[q][i]]],
               err |-> ErrNone ]
        ELSE [ queues |-> queues, err |-> ErrMessageNotFound ]

NewQueueManager ==
    [ queues  |-> [q \in {} |-> <<>>],
      nextID  |-> 1,
      holding |-> [w \in Goroutines |-> 0],
      handed  |-> [id \in MessageIDs |-> 0],
      last    |-> [ op |-> "NewQueueManager", queue |-> "", id |-> 0,
                    deps |-> {}, err |-> ErrNone ] ]

QueueFrame == UNCHANGED <<coreParts, adders, agfs, saver, ax, dd, rel, fs, moreParts>>

QCalled(op, queue, id, deps, err) ==
    [ op |-> op, queue |-> queue, id |-> id, deps |-> deps, err |-> err ]

CreateQueue ==
    \E name \in QueueNames :
        /\ qm' = [qm EXCEPT
              !.queues = IF name \in DOMAIN qm.queues THEN @
                         ELSE [q \in DOMAIN qm.queues \cup {name} |->
                                  IF q = name THEN <<>> ELSE qm.queues[q]],
              !.last = QCalled("CreateQueue", name, 0, {},
                               IF name \in DOMAIN qm.queues
                                   THEN "already exists" ELSE ErrNone)]
        /\ QueueFrame

\* Enqueue of a new message whose prerequisites are ids drawn before.  The
\* id is drawn before the dependency check, so a refused message uses one
\* up, and its id is one that no queue holds.
Enqueue ==
    \E queue \in QueueNames, deps \in SUBSET (1..(qm.nextID - 1)) :
        /\ qm.nextID <= MaxMessages
        /\ LET id == IF queue \in DOMAIN qm.queues THEN qm.nextID ELSE 0
               r  == EnqueueResult(qm.queues, queue, id, deps)
           IN  qm' = [qm EXCEPT !.queues = r.queues,
                                !.nextID = IF id = 0 THEN @ ELSE @ + 1,
                                !.last = QCalled("Enqueue", queue, id, deps, r.err)]
        /\ QueueFrame

\* A worker of processLoop that holds no message calls Dequeue; the whole
\* call runs under qm.mu.
Dequeue ==
    \E w \in Goroutines, queue \in QueueNames :
        /\ qm.holding[w] = 0
        /\ LET r == DequeueResult(qm.queues, queue) IN
           qm' = [qm EXCEPT
              !.queues = r.queues,
              !.holding[w] = r.msg.ID,
              !.handed = IF r.msg.ID = 0 THEN @
                         ELSE [@ EXCEPT ![r.msg.ID] = @ + 1],
              !.last = QCalled("Dequeue", queue, r.msg.ID, r.msg.Dependencies, r.err)]
        /\ QueueFrame

\* The worker's handler returns, with or without an error, and the worker
\* calls Fail or Complete with the id of the message it holds.
processLoop ==
    \E w \in Goroutines, status \in {MessageStatusCompleted, MessageStatusFailed} :
        /\ qm.holding[w] # 0
        /\ LET r == SetStatus(qm.queues, qm.holding[w], status) IN
           qm' = [qm EXCEPT
              !.queues = r.queues,
              !.holding[w] = 0,
              !.last = QCalled(IF status = MessageStatusCompleted
                                   THEN "Complete" ELSE "Fail",
                               "", qm.holding[w], {}, r.err)]
        /\ QueueFrame

\* Complete called by another caller, on any id drawn so far.
Complete ==
    \E msgID \in 1..(qm.nextID - 1) :
        /\ LET r == SetStatus(qm.queues, msgID, MessageStatusCompleted) IN
           qm' = [qm EXCEPT !.queues = r.queues,
                            !.last = QCalled("Complete", "", msgID, {}, r.err)]
        /\ QueueFrame

Fail ==
    \E msgID \in 1..(qm.nextID - 1) :
        /\ LET r == SetStatus(qm.queues, msgID, MessageStatusFailed) IN
           qm' = [qm EXCEPT !.queues = r.queues,
                            !.last = QCalled("Fail", "", msgID, {}, r.err)]
        /\ QueueFrame

(***************************************************************************)
(* Package session: Session.AddMessage called from several goroutines.     *)
(* The method takes no lock: s.TotalTurns++ is a load followed by a store. *)
(***************************************************************************)
NoAdders ==
    [ g        |-> [t \in Goroutines |-> [ pc |-> "idle", turns |-> 0 ]],
      started  |-> 0,
      returned |-> 0 ]

\* The goroutine builds the message and loads s.TotalTurns.
AddMessageLoad ==
    \E t \in Goroutines :
        /\ adders.g[t].pc = "idle"
        /\ adders.started < MaxCount
        /\ adders' = [adders EXCEPT !.g[t] = [ pc |-> "loaded",
                                               turns |-> session.TotalTurns ],
                                    !.started = @ + 1]
        /\ UNCHANGED <<coreParts, agfs, qm, saver, ax, dd, rel, fs, moreParts>>

\* The goroutine stores the incremented value and returns the message.
AddMessageStore ==
    \E t \in Goroutines :
        /\ adders.g[t].pc = "loaded"
        /\ session' = [session EXCEPT !.TotalTurns = adders.g[t].turns + 1]
        /\ adders' = [adders EXCEPT !.g[t] = [ pc |-> "idle", turns |-> 0 ],
                                    !.returned = @ + 1]
        /\ UNCHANGED <<call, tc, config, wcall, rs, rcall, reader,
                       agfs, qm, saver, ax, dd, rel, fs, moreParts>>

(***************************************************************************)
(* Package core: AutoSaver.                                                *)
(***************************************************************************)
\* The goroutines that Start has launched run the select loop; the callers
\* of Stop close stopCh and wait for doneCh.  afterStop tells, for the Save
\* a goroutine is in, whether it began after a Stop call had started.
NewAutoSaver ==
    [ stopCh    |-> "open",
      doneCh    |-> "open",
      g         |-> [t \in Goroutines |-> [ pc |-> "none", afterStop |-> FALSE ]],
      stopper   |-> [t \in Goroutines |-> "idle"],
      ticks     |-> 0,
      finalDone |-> 0,
      panicked  |-> FALSE ]

StopCalled(sv) == \E t \in Goroutines : sv.stopper[t] # "idle"

\* A stop branch that signals doneCh without the final Save.
stopBranchNoSave(sv, t) ==
    [sv EXCEPT !.g[t] = [ pc |-> "closeDone", afterStop |-> FALSE ]]

\* case <-as.stopCh: the final Save begins.
stopBranch(sv, t) ==
    [sv EXCEPT !.g[t] = [ pc |-> "finalSave", afterStop |-> StopCalled(sv) ]]

SaverFrame == UNCHANGED <<coreParts, adders, agfs, qm, ax, dd, rel, fs, moreParts>>

\* Start launches one more goroutine.
Start ==
    \E t \in Goroutines :
        /\ ~saver.panicked
        /\ saver.g[t].pc = "none"
        /\ \A u \in Goroutines : u < t => saver.g[u].pc # "none"
        /\ saver' = [saver EXCEPT !.g[t].pc = "select"]
        /\ SaverFrame

\* case <-ticker.C: a periodic Save begins.
TickSave ==
    \E t \in Goroutines :
        /\ ~saver.panicked
        /\ saver.g[t].pc = "select"
        /\ saver.ticks < MaxTicks
        /\ saver' = [saver EXCEPT !.g[t] = [ pc |-> "tickSave",
                                             afterStop |-> StopCalled(saver) ],
                                  !.ticks = @ + 1]
        /\ SaverFrame

\* The periodic Save returns; back to the select.
TickSaveDone ==
    \E t \in Goroutines :
        /\ ~saver.panicked
        /\ saver.g[t].pc = "tickSave"
        /\ saver' = [saver EXCEPT !.g[t] = [ pc |-> "select", afterStop |-> FALSE ]]
        /\ SaverFrame

StopSignal ==
    \E t \in Goroutines :
        /\ ~saver.panicked
        /\ saver.g[t].pc = "select"
        /\ saver.stopCh = "closed"
        /\ saver' = stopBranch(saver, t)
        /\ SaverFrame

\* The final Save returns.
FinalSaveDone ==
    \E t \in Goroutines :
        /\ ~saver.panicked
        /\ saver.g[t].pc = "finalSave"
        /\ saver' = [saver EXCEPT
              !.g[t].pc = "closeDone",
              !.finalDone = IF saver.g[t].afterStop THEN @ + 1 ELSE @]
        /\ SaverFrame

\* close(as.doneCh) and return; closing a closed channel panics.
CloseDone ==
    \E t \in Goroutines :
        /\ ~saver.panicked
        /\ saver.g[t].pc = "closeDone"
        /\ saver' = IF saver.doneCh = "closed"
                        THEN [saver EXCEPT !.panicked = TRUE]
                        ELSE [saver EXCEPT !.doneCh = "closed",
                                           !.g[t].pc = "exited"]
        /\ SaverFrame

\* Stop: close(as.stopCh); closing a closed channel panics.
Stop ==
    \E t \in Goroutines :
        /\ ~saver.panicked
        /\ saver.stopper[t] = "idle"
        /\ saver' = IF saver.stopCh = "closed"
                        THEN [saver EXCEPT !.panicked = TRUE]
                        ELSE [saver EXCEPT !.stopCh = "closed",
                                           !.stopper[t] = "waiting"]
        /\ SaverFrame

\* Stop: <-as.doneCh, return nil.
StopReturn ==
    \E t \in Goroutines :
        /\ ~saver.panicked
        /\ saver.stopper[t] = "waiting"
        /\ saver.doneCh = "closed"
        /\ saver' = [saver EXCEPT !.stopper[t] = "returned"]
        /\ SaverFrame

(***************************************************************************)
(* Package session: AutoExtractor.                                         *)
(***************************************************************************)
\* count is len(ae.messages); elapsed tells whether
\* time.Since(ae.lastExtracted) >= ae.interval.  lastExtracted starts as the
\* zero time, so the interval has elapsed for a new extractor.
NewAutoExtractor(maxMessages) ==
    [ MaxMessages |-> maxMessages,
      count       |-> 0,
      elapsed     |-> TRUE,
      last        |-> [ op |-> "NewAutoExtractor", triggered |-> FALSE, err |-> FALSE ] ]

\* A trigger rule that waits for one message more than MaxMessages.
shouldExtractAbove(count, maxMessages, elapsed) ==
    count > maxMessages \/ elapsed

shouldExtract(count, maxMessages, elapsed) ==
    count >= maxMessages \/ elapsed

ExtractorFrame == UNCHANGED <<coreParts, adders, agfs, qm, saver, dd, rel, fs, moreParts>>

\* AutoExtractor.AddMessage: append, then extract if due.  failed is the
\* outcome of the extraction; lastExtracted is set only when it succeeds.
AutoExtractorAddMessage ==
    \E failed \in BOOLEAN :
        /\ ax.count < MaxAppends
        /\ LET n   == ax.count + 1
               due == shouldExtract(n, ax.MaxMessages, ax.elapsed)
           IN  /\ (failed => due)
               /\ ax' = [ax EXCEPT
                     !.count = n,
                     !.elapsed = IF due /\ ~failed THEN FALSE ELSE @,
                     !.last = [ op |-> "AddMessage", triggered |-> due,
                                err |-> failed ]]
        /\ ExtractorFrame

\* The interval runs out.
IntervalElapses ==
    /\ ~ax.elapsed
    /\ ax' = [ax EXCEPT !.elapsed = TRUE]
    /\ ExtractorFrame

\* AutoExtractor.Clear.
Clear ==
    /\ ax.count > 0
    /\ ax' = [ax EXCEPT !.count = 0,
                        !.last = [ op |-> "Clear", triggered |-> FALSE, err |-> FALSE ]]
    /\ ExtractorFrame

(***************************************************************************)
(* Package session: MemoryDeduper.                                         *)
(***************************************************************************)
\* A memory is its content, as the set of its lower-cased words, and its
\* importance.  Lists of memories hold positions of the input, so that two
\* equal memories stay two memories.
Words == {"x", "y"}
Memories == [ Content : SUBSET Words, Importance : 0..MaxImportance ]
\* The thresholds a deduper is built with: 0.5, and the default 0.8.
Thresholds == { [ num |-> 1, den |-> 2 ], [ num |-> 4, den |-> 5 ] }
\* What the LLM call of a group ends in: an error, a response without
\* choices, or a response whose text holds "merge", holds "keep" and not
\* "merge", or holds neither.
Answers == {"error", "no choices", "merge", "keep", "other"}

\* calculateSimilarity: the Jaccard similarity of the two word sets, as a
\* fraction; 0 when either has no words.
calculateSimilarity(a, b) ==
    LET common == Cardinality(a \cap b)
        total  == Cardinality(a) + Cardinality(b) - common
    IN  IF a = {} \/ b = {} THEN [ num |-> 0, den |-> 1 ]
        ELSE [ num |-> common, den |-> total ]

\* calculateSimilarity(a, b) >= d.threshold
Similar(a, b, threshold) ==
    LET sim == calculateSimilarity(a, b) IN
    sim.num * threshold.den >= threshold.num * sim.den

\* groupSimilar over the memories from position k on: a memory joins the
\* first group whose first member it is similar to, or starts a group.
RECURSIVE groupSimilar(_, _, _, _)
groupSimilar(memories, threshold, k, groups) ==
    IF k > Len(memories) THEN groups
    ELSE LET fits(i) == Similar(memories[k].Content,
                                memories[groups[i][1]].Content, threshold)
             hit == IF \E i \in 1..Len(groups) : fits(i)
                        THEN CHOOSE i \in 1..Len(groups) :
                                fits(i) /\ \A j \in 1..(i - 1) : ~fits(j)
                        ELSE 0
         IN  groupSimilar(memories, threshold, k + 1,
                 IF hit = 0 THEN Append(groups, <<k>>)
                 ELSE [groups EXCEPT ![hit] = Append(@, k)])

\* parseDecisions, for a response that holds neither keyword, one that
\* holds "keep" and one that holds "merge".
parseDecisions(response, count) ==
    [ i \in 1..count |->
        IF response = "merge" THEN (IF i = 1 THEN "merge" ELSE "delete")
        ELSE IF response = "keep" THEN "keep"
        ELSE (IF i = 1 THEN "merge" ELSE "keep") ]

\* simpleMerge: the first member with the highest importance.
simpleMerge(memories, group) ==
    LET better(i) == \A j \in 1..Len(group) :
                        \/ memories[group[j]].Importance < memories[group[i]].Importance
                        \/ /\ memories[group[j]].Importance = memories[group[i]].Importance
                           /\ i <= j
    IN  group[CHOOSE i \in 1..Len(group) : better(i)]

\* The members of group that the decisions put into the result.
RECURSIVE applyDecisions(_, _, _)
applyDecisions(group, decisions, i) ==
    IF i > Len(decisions) THEN <<>>
    ELSE (IF \/ decisions[i] = "merge"
             \/ decisions[i] = "create"
             \/ decisions[i] = "keep" /\ i = 1
            THEN <<group[i]>> ELSE <<>>)
         \o applyDecisions(group, decisions, i + 1)

\* What one group adds to the result, given how its LLM call ends.
DedupGroup(memories, group, answer) ==
    IF Len(group) <= 1 THEN group
    ELSE IF answer = "error" THEN <<simpleMerge(memories, group)>>
    ELSE IF answer = "no choices" THEN <<>>
    ELSE applyDecisions(group, parseDecisions(answer, Len(group)), 1)

RECURSIVE DedupGroups(_, _, _, _)
DedupGroups(memories, groups, answers, g) ==
    IF g > Len(groups) THEN <<>>
    ELSE DedupGroup(memories, groups[g], answers[g])
         \o DedupGroups(memories, groups, answers, g + 1)

NewDedup(memories, threshold) ==
    [ memories |-> memories, threshold |-> threshold, done |-> FALSE,
      groups |-> <<>>, answers |-> <<>>, result |-> <<>> ]

\* MemoryDeduper.Dedup, for each way the LLM calls of its groups can end.
Dedup ==
    /\ ~dd.done
    /\ LET n      == Len(dd.memories)
           groups == IF n <= 1 THEN <<>>
                     ELSE groupSimilar(dd.memories, dd.threshold, 1, <<>>)
       IN  \E answers \in [1..Len(groups) -> Answers] :
               /\ \A g \in 1..Len(groups) :
                     Len(groups[g]) <= 1 => answers[g] = "other"
               /\ dd' = [dd EXCEPT
                     !.done = TRUE,
                     !.groups = groups,
                     !.answers = answers,
                     !.result = IF n <= 1 THEN [i \in 1..n |-> i]
                                ELSE DedupGroups(dd.memories, groups, answers, 1)]
    /\ UNCHANGED <<coreParts, adders, agfs, qm, saver, ax, rel, fs, moreParts>>

(***************************************************************************)
(* Package agfs: RelationManager, the .relations.json of one directory.    *)
(***************************************************************************)
\* An entry is its id and its target URIs; the id link_<n> is held as n.
LinkTargets == {"viking://x", "viking://y"}
LinkURIs ==
    {<<>>} \cup { <<u>> : u \in LinkTargets }
           \cup { <<u, v>> : u \in LinkTargets, v \in LinkTargets }

\* assigned is the ids that Link has given out, in order.
NewRelations ==
    [ table |-> <<>>, assigned |-> <<>>,
      last |-> [ op |-> "NewRelationManager", target |-> "", err |-> ErrNone ] ]

\* generateLinkID: one more than the highest id of the table.
generateLinkID(relations) ==
    LET ids   == { relations[i].ID : i \in 1..Len(relations) }
        maxID == IF ids = {} THEN 0
                 ELSE CHOOSE n \in ids : \A m \in ids : m <= n
    IN  maxID + 1

\* s without its first element equal to x.
RECURSIVE RemoveFirst(_, _)
RemoveFirst(s, x) ==
    IF s = <<>> THEN <<>>
    ELSE IF Head(s) = x THEN Tail(s)
    ELSE <<Head(s)>> \o RemoveFirst(Tail(s), x)

RECURSIVE NonEmptyEntries(_)
NonEmptyEntries(relations) ==
    IF relations = <<>> THEN <<>>
    ELSE (IF Len(Head(relations).URIs) > 0 THEN <<Head(relations)>> ELSE <<>>)
         \o NonEmptyEntries(Tail(relations))

\* Unlink: every entry loses its first occurrence of the target; if some
\* entry held it, the entries left without URIs are dropped and the table
\* is written.
UnlinkResult(relations, targetURI) ==
    LET found == \E i \in 1..Len(relations) :
                     \E j \in 1..Len(relations[i].URIs) :
                         relations[i].URIs[j] = targetURI
        cut   == [ i \in 1..Len(relations) |->
                     [relations[i] EXCEPT !.URIs = RemoveFirst(@, targetURI)] ]
    IN  IF found THEN [ table |-> NonEmptyEntries(cut), err |-> ErrNone ]
        ELSE [ table |-> relations, err |-> "not found" ]

RelationFrame == UNCHANGED <<coreParts, adders, agfs, qm, saver, ax, dd, fs, moreParts>>

\* Link, under the write lock of the AGFS: read the table, append an entry
\* with a generated id, write the table.
Link ==
    \E uris \in LinkURIs :
        /\ Len(rel.assigned) < MaxLinks
        /\ LET id == generateLinkID(rel.table) IN
           rel' = [ table    |-> Append(rel.table, [ ID |-> id, URIs |-> uris ]),
                    assigned |-> Append(rel.assigned, id),
                    last     |-> [ op |-> "Link", target |-> "", err |-> ErrNone ] ]
        /\ RelationFrame

Unlink ==
    \E targetURI \in LinkTargets :
        /\ rel' = [rel EXCEPT
              !.table = UnlinkResult(rel.table, targetURI).table,
              !.last = [ op |-> "Unlink", target |-> targetURI,
                         err |-> UnlinkResult(rel.table, targetURI).err ]]
        /\ RelationFrame

(***************************************************************************)
(* Package agfs: AGFS.Copy over the files under the root.                  *)
(* A path names nothing, a file with its content, or a directory with at   *)
(* most one file in it; "" is the content of an empty file.                *)
(***************************************************************************)
ErrNotFound == "not found"
ErrAlreadyExists == "already exists"

StorePaths == {"a", "b"}
StoreContents == {"", "p", "q"}
NoChild == [ exists |-> FALSE, content |-> "" ]
Child(c) == [ exists |-> TRUE, content |-> c ]
NoNode == [ kind |-> "none", content |-> "", child |-> NoChild ]
FileNode(c) == [ kind |-> "file", content |-> c, child |-> NoChild ]
DirNode(ch) == [ kind |-> "dir", content |-> "", child |-> ch ]
StoreNodes ==
    {NoNode} \cup { FileNode(c) : c \in StoreContents }
             \cup {DirNode(NoChild)} \cup { DirNode(Child(c)) : c \in StoreContents }

EmptyRoot == [ p \in StorePaths |-> NoNode ]

\* pre is the store as the last call found it.
NewStore(nodes) ==
    [ nodes |-> nodes,
      pre   |-> nodes,
      last  |-> [ op |-> "New", old |-> "", new |-> "", err |-> ErrNone ] ]

\* copyFile: os.Open(src), then os.Create(dst), which fails on a directory
\* and truncates a file that exists, then io.Copy.  When dst is src itself
\* the file has been truncated before it is read.
copyFile(content, dst, same) ==
    IF dst.kind = "dir"
        THEN [ node |-> dst, err |-> "is a directory" ]
        ELSE [ node |-> FileNode(IF same THEN "" ELSE content), err |-> ErrNone ]

\* copyDir: os.MkdirAll(dst), which fails on a file and accepts a directory
\* that exists, then copyFile for the file of src into dst.
copyDir(src, dst, same) ==
    IF dst.kind = "file"
        THEN [ node |-> dst, err |-> "not a directory" ]
    ELSE IF ~src.child.exists
        THEN [ node |-> DirNode(dst.child), err |-> ErrNone ]
    ELSE [ node |-> DirNode(Child(IF same THEN "" ELSE src.child.content)),
           err |-> ErrNone ]

CopyResult(nodes, old, new) ==
    IF nodes[old].kind = "none"
        THEN [ node |-> nodes[new], err |-> ErrNotFound ]
    ELSE IF nodes[old].kind = "dir"
        THEN copyDir(nodes[old], nodes[new], old = new)
    ELSE copyFile(nodes[old].content, nodes[new], old = new)

\* AGFS.Copy, the whole call under a.mu.
Copy ==
    \E old \in StorePaths, new \in StorePaths :
        /\ LET r == CopyResult(fs.nodes, old, new) IN
           fs' = [ nodes |-> [fs.nodes EXCEPT ![new] = r.node],
                   pre   |-> fs.nodes,
                   last  |-> [ op |-> "Copy", old |-> old, new |-> new,
                               err |-> r.err ] ]
        /\ UNCHANGED <<coreParts, adders, agfs, qm, saver, ax, dd, rel, moreParts>>

(***************************************************************************)
(* Package session: SessionCompressor.                                     *)
(***************************************************************************)
\* DefaultCompressionConfig: Threshold 50, KeepRecent 5.
DefaultThreshold == 50
DefaultKeepRecent == 5

\* NewSessionCompressor: a Threshold or KeepRecent of 0 becomes the default.
\* messages is the length of the message list that the caller of the
\* compressor keeps and hands to it, triggered counts the calls of
\* CompressWithTrigger that returned true, last is the latest of these calls.
NewSessionCompressor(threshold, keepRecent) ==
    [ Threshold  |-> IF threshold = 0 THEN DefaultThreshold ELSE threshold,
      KeepRecent |-> IF keepRecent = 0 THEN DefaultKeepRecent ELSE keepRecent,
      messages   |-> 0,
      triggered  |-> 0,
      last       |-> [ triggered |-> FALSE, MessagesCompressed |-> 0 ] ]

ShouldCompress(c, messageCount) == messageCount >= c.Threshold

\* Compress: MessagesCompressed of the result, for a list of this length.
\* The list itself is only read: no message is removed or replaced.
CompressedCount(c, messages) ==
    IF messages <= c.KeepRecent THEN 0 ELSE messages - c.KeepRecent

\* The session receives one more message: Session.AddMessage counts the turn
\* and returns the message, the caller appends it to its list and calls
\* CompressWithTrigger on the list.  The compressor holds no session: it
\* calls no method of one.
ReceiveMessage ==
    /\ sc.messages < MaxReceived
    /\ session' = [session EXCEPT !.TotalTurns = @ + 1]
    /\ call' = [ op |-> "AddMessage", pre |-> session.State, err |-> ErrNone,
                 msg |-> TRUE ]
    /\ LET n == sc.messages + 1
           hit == ShouldCompress(sc, n)
       IN  sc' = [sc EXCEPT
                     !.messages = n,
                     !.triggered = IF hit THEN @ + 1 ELSE @,
                     !.last = [ triggered |-> hit,
                                MessagesCompressed |->
                                    IF hit THEN CompressedCount(sc, n) ELSE 0 ]]
    /\ UNCHANGED <<tc, config, wcall, rs, rcall, reader,
                   adders, agfs, qm, saver, ax, dd, rel, fs, conv, tlock, bind>>

(***************************************************************************)
(* Package agfs: URIToPath, PathToURI and normalizeURI.                    *)
(***************************************************************************)
\* Strings are sequences of one-character strings.
Slash == <<"/">>
VikingPrefix == <<"v", "i", "k", "i", "n", "g", ":", "/", "/">>
LocalPrefix == <<"/", "l", "o", "c", "a", "l", "/">>

\* strings.HasPrefix and strings.TrimPrefix.
HasPrefix(s, prefix) ==
    Len(s) >= Len(prefix) /\ SubSeq(s, 1, Len(prefix)) = prefix

TrimPrefix(s, prefix) ==
    IF HasPrefix(s, prefix) THEN SubSeq(s, Len(prefix) + 1, Len(s)) ELSE s

\* The elements of a path between its separators, empty ones included.
RECURSIVE Elements(_, _)
Elements(path, element) ==
    IF path = <<>> THEN <<element>>
    ELSE IF Head(path) = "/" THEN <<element>> \o Elements(Tail(path), <<>>)
    ELSE Elements(Tail(path), Append(element, Head(path)))

\* filepath.Clean, element by element: an empty element and "." are dropped,
\* ".." takes back the element before it, is dropped at the root of a rooted
\* path and is kept at the front of a relative one.
RECURSIVE CleanElements(_, _, _)
CleanElements(elements, kept, rooted) ==
    IF elements = <<>> THEN kept
    ELSE LET e == Head(elements)
             rest == Tail(elements)
         IN  IF e = <<>> \/ e = <<".">> THEN CleanElements(rest, kept, rooted)
             ELSE IF e = <<".", ".">>
                 THEN IF kept # <<>> /\ kept[Len(kept)] # <<".", ".">>
                          THEN CleanElements(rest, SubSeq(kept, 1, Len(kept) - 1), rooted)
                      ELSE IF rooted THEN CleanElements(rest, kept, rooted)
                      ELSE CleanElements(rest, Append(kept, e), rooted)
             ELSE CleanElements(rest, Append(kept, e), rooted)

RECURSIVE JoinElements(_)
JoinElements(elements) ==
    IF elements = <<>> THEN <<>>
    ELSE IF Len(elements) = 1 THEN Head(elements)
    ELSE Head(elements) \o Slash \o JoinElements(Tail(elements))

\* filepath.Clean of a path that is not empty: "." if nothing is left.
Clean(path) ==
    LET rooted == Head(path) = "/"
        out == (IF rooted THEN Slash ELSE <<>>)
                   \o JoinElements(CleanElements(Elements(path, <<>>), <<>>, rooted))
    IN  IF out = <<>> THEN <<".">> ELSE out

\* filepath.Join of two elements that are not empty.
Join(dir, name) == Clean(dir \o Slash \o name)

\* URIToPath, for an AGFS with this rootPath and the uriPrefix "viking://".
URIToPath(rootPath, uri) ==
    IF ~HasPrefix(uri, VikingPrefix) THEN <<>>
    ELSE LET remainder == TrimPrefix(TrimPrefix(uri, VikingPrefix), Slash)
         IN  IF remainder = <<>> THEN rootPath ELSE Join(rootPath, remainder)

PathToURI(rootPath, path) ==
    IF ~HasPrefix(path, rootPath)
        THEN IF HasPrefix(path, LocalPrefix)
                 THEN VikingPrefix \o TrimPrefix(path, LocalPrefix)
                 ELSE VikingPrefix \o TrimPrefix(path, Slash)
    ELSE LET remainder == TrimPrefix(TrimPrefix(path, rootPath), Slash)
         IN  IF remainder = <<>> THEN VikingPrefix ELSE VikingPrefix \o remainder

normalizeURI(uri) ==
    IF ~HasPrefix(uri, VikingPrefix)
        THEN IF HasPrefix(uri, LocalPrefix)
                 THEN VikingPrefix \o TrimPrefix(uri, LocalPrefix)
             ELSE IF HasPrefix(uri, Slash)
                 THEN VikingPrefix \o TrimPrefix(uri, Slash)
             ELSE uri
    ELSE uri

\* Config.RootPath: a rooted directory, or a relative one as in
\* DefaultConfig ("./data/viking").
RootPaths == { <<"/", "r">>, <<".", "/", "r">> }

\* The URIs of the callers: "viking://", "/local/", "/" or nothing, and then
\* up to MaxURILen characters.
URIChars == {"a", "/", "."}
URITails == UNION { [1..n -> URIChars] : n \in 0..MaxURILen }
CallerURIs ==
    { prefix \o tail : prefix \in {VikingPrefix, LocalPrefix, Slash, <<>>},
                       tail \in URITails }

NewConversion(rootPath, uri) ==
    [ rootPath |-> rootPath, uri |-> uri, done |-> FALSE,
      path |-> <<>>, back |-> <<>>, normalized |-> <<>> ]

\* The caller converts its URI to a path and the path back, and normalizes
\* the URI.
Convert ==
    /\ ~conv.done
    /\ conv' = [conv EXCEPT
                   !.done = TRUE,
                   !.path = URIToPath(conv.rootPath, conv.uri),
                   !.back = PathToURI(conv.rootPath,
                                      URIToPath(conv.rootPath, conv.uri)),
                   !.normalized = normalizeURI(conv.uri)]
    /\ UNCHANGED <<earlierParts, sc, tlock, bind>>

(***************************************************************************)
(* Package core: the locks of TieredContext and ContextWindow.             *)
(***************************************************************************)
\* The methods of TieredContext as the steps they take: taking and
\* releasing tc.mu, and the accesses to the lists tc.L0, tc.L1 and tc.L2,
\* "write" for an append, a removal or a sort in place, "read" otherwise.
TieredSteps ==
    [ Add            |-> <<"Lock", "write", "Unlock">>,
      Remove         |-> <<"Lock", "write", "Unlock">>,
      SortByActivity |-> <<"Lock", "write", "Unlock">>,
      GetL0          |-> <<"RLock", "read", "RUnlock">> ]

\* The methods of ContextWindow, which take w.mu ("WLock", "WUnlock") first.
\*   AddContext: currentTokensUnsafe reads by tc.GetAll, then tc.Add.
\*   OptimizeWindow: sortL0ByActivity(w.tc.L0), sortL1ByActivity(w.tc.L1)
\*     and sortL2ByActivity(w.tc.L2) sort the lists in place, then
\*     fitInWindowUnsafe ranges over them; tc.mu is not taken.
WindowSteps ==
    [ AddContext     |-> <<"WLock", "RLock", "read", "RUnlock",
                           "Lock", "write", "Unlock", "WUnlock">>,
      OptimizeWindow |-> <<"WLock", "write", "read", "WUnlock">> ]

TierSteps == TieredSteps @@ WindowSteps

\* No goroutine is inside a call, nobody holds tc.mu or w.mu.
NewTierLocks ==
    [ writer  |-> 0,
      readers |-> {},
      window  |-> 0,
      g       |-> [t \in Goroutines |-> [ op |-> "none", pc |-> 1, access |-> "none" ]] ]

\* The step goroutine t is about to take, "return" when its call is over.
TierNextStep(t) ==
    LET me == tlock.g[t] IN
    IF me.op = "none" THEN "none"
    ELSE IF me.pc > Len(TierSteps[me.op]) THEN "return"
    ELSE TierSteps[me.op][me.pc]

TierFrame == UNCHANGED <<earlierParts, sc, conv, bind>>

TierCall ==
    \E t \in Goroutines, op \in DOMAIN TierSteps :
        /\ tlock.g[t].op = "none"
        /\ tlock' = [tlock EXCEPT !.g[t] = [ op |-> op, pc |-> 1, access |-> "none" ]]
        /\ TierFrame

TierLock ==
    \E t \in Goroutines :
        /\ TierNextStep(t) = "Lock"
        /\ tlock.writer = 0 /\ tlock.readers = {}
        /\ tlock' = [tlock EXCEPT !.writer = t, !.g[t].pc = @ + 1]
        /\ TierFrame

TierUnlock ==
    \E t \in Goroutines :
        /\ TierNextStep(t) = "Unlock"
        /\ tlock' = [tlock EXCEPT !.writer = 0, !.g[t].pc = @ + 1]
        /\ TierFrame

TierRLock ==
    \E t \in Goroutines :
        /\ TierNextStep(t) = "RLock"
        /\ tlock.writer = 0
        /\ tlock' = [tlock EXCEPT !.readers = @ \cup {t}, !.g[t].pc = @ + 1]
        /\ TierFrame

TierRUnlock ==
    \E t \in Goroutines :
        /\ TierNextStep(t) = "RUnlock"
        /\ tlock' = [tlock EXCEPT !.readers = @ \ {t}, !.g[t].pc = @ + 1]
        /\ TierFrame

WindowLock ==
    \E t \in Goroutines :
        /\ TierNextStep(t) = "WLock"
        /\ tlock.window = 0
        /\ tlock' = [tlock EXCEPT !.window = t, !.g[t].pc = @ + 1]
        /\ TierFrame

WindowUnlock ==
    \E t \in Goroutines :
        /\ TierNextStep(t) = "WUnlock"
        /\ tlock' = [tlock EXCEPT !.window = 0, !.g[t].pc = @ + 1]
        /\ TierFrame

\* An access to the tier lists begins ...
TierBegin ==
    \E t \in Goroutines :
        /\ TierNextStep(t) \in {"read", "write"}
        /\ tlock.g[t].access = "none"
        /\ tlock' = [tlock EXCEPT !.g[t].access = TierNextStep(t)]
        /\ TierFrame

\* ... and ends.
TierEnd ==
    \E t \in Goroutines :
        /\ tlock.g[t].access # "none"
        /\ tlock' = [tlock EXCEPT !.g[t].access = "none", !.g[t].pc = @ + 1]
        /\ TierFrame

TierReturn ==
    \E t \in Goroutines :
        /\ TierNextStep(t) = "return"
        /\ tlock' = [tlock EXCEPT !.g[t] = [ op |-> "none", pc |-> 1, access |-> "none" ]]
        /\ TierFrame

(***************************************************************************)
(* Package agfs: WriteContext and ReadContext.                             *)
(***************************************************************************)
\* The files of a context, in the order WriteContext writes them and
\* ReadContext reads them: .abstract.md, .overview.md, content.md.
Levels == <<"Abstract", "Overview", "Content">>

\* The context files of a URI hold "old" at every level.  One goroutine
\* calls WriteContext with the arguments args, another calls ReadContext;
\* written and read say how many levels each call has dealt with.
NewBinding(args) ==
    [ files   |-> [l \in 1..Len(Levels) |-> "old"],
      args    |-> args,
      written |-> 0,
      read    |-> 0,
      ctx     |-> [l \in 1..Len(Levels) |-> ""] ]

\* WriteContext, one level at a time: an argument that is not "" is written
\* to its file by WriteFile, which takes a.mu for this one os.WriteFile and
\* releases it; an argument "" leaves the file as it is.
WriteContext ==
    /\ bind.written < Len(Levels)
    /\ LET l == bind.written + 1 IN
       bind' = [bind EXCEPT
                   !.written = l,
                   !.files[l] = IF bind.args[l] # "" THEN bind.args[l] ELSE @]
    /\ UNCHANGED <<earlierParts, sc, conv, tlock>>

\* ReadContext, one level at a time: ReadAbstract, ReadOverview and
\* ReadContent each read their file with a.mu not taken.
ReadContext ==
    /\ bind.read < Len(Levels)
    /\ LET l == bind.read + 1 IN
       bind' = [bind EXCEPT !.read = l, !.ctx[l] = bind.files[l]]
    /\ UNCHANGED <<earlierParts, sc, conv, tlock>>

(***************************************************************************)
(* Specifications.                                                         *)
(***************************************************************************)
Configs == [ MaxTokens : 0..MaxBudget, MinL0Retention : 0..MaxRetention ]

\* The state after construction, for a window configured with one of cfgs.
DefaultStore ==
    [ parent  |-> NoFilterParents,
      score   |-> [n \in RNodes |-> 0],
      leaf    |-> [n \in RNodes |-> TRUE],
      filters |-> TRUE ]

\* The state after construction, for a window configured with one of cfgs
\* and a retrieval over one of stores with one of limits.
CoreInit(cfgs, stores, limits) ==
    /\ session = NewSession
    /\ call = NoCall
    /\ tc = NewTieredContext
    /\ config \in cfgs
    /\ wcall = NoWCall
    /\ rs \in { RetrieveStart(store, limit) : store \in stores, limit \in limits }
    /\ rcall = NoRCall
    /\ reader = NoReader

\* The parts with operations of their own, after construction.
MoreInit ==
    /\ sc = NewSessionCompressor(0, 0)
    /\ conv = NewConversion(<<"/", "r">>, VikingPrefix)
    /\ tlock = NewTierLocks
    /\ bind = NewBinding(<<"new", "new", "new">>)

\* The other parts after construction, for an auto-extractor configured
\* with one of maxMessages and a Dedup call on one of inputs.
OtherInit(maxMessages, inputs) ==
    /\ adders = NoAdders
    /\ agfs = NewAGFS
    /\ qm = NewQueueManager
    /\ saver = NewAutoSaver
    /\ ax \in { NewAutoExtractor(m) : m \in maxMessages }
    /\ dd \in inputs
    /\ rel = NewRelations
    /\ fs = NewStore(EmptyRoot)
    /\ MoreInit

InitWith(cfgs, stores, limits) ==
    /\ CoreInit(cfgs, stores, limits)
    /\ OtherInit({MaxAppends}, {NewDedup(<<>>, [ num |-> 4, den |-> 5 ])})

Init ==
    InitWith({[ MaxTokens |-> MaxBudget, MinL0Retention |-> 1 ]}, {DefaultStore}, {0})

SessionNext ==
    \/ AddMessage
    \/ AddToolCall
    \/ Pause
    \/ Resume
    \/ Close
    \/ IncrementContextsUsed
    \/ IncrementMemoriesExtracted
    \/ IncrementCompression
    \/ AddTokens

SessionSpec == Init /\ [][SessionNext]_vars

\* The tier operations on a tiered context shared with a window.
TierNext ==
    \/ Add(TierContexts)
    \/ AddContext(TierContexts)
    \/ Remove
    \/ MoveToTier

TierSpec == Init /\ [][TierNext]_vars

\* A window over a tiered context that its owner also fills directly.
WindowInit == InitWith(Configs, {DefaultStore}, {0})

WindowNext ==
    \/ Add(WindowContexts)
    \/ AddContext(WindowContexts)
    \/ Remove
    \/ FitInWindow

WindowSpec == WindowInit /\ [][WindowNext]_vars

\* The window under OptimizeWindow, over contexts that carry an ActiveCount.
OptimizeContexts ==
    [ URI : {"viking://a"}, Tier : TierL0..TierL2, AbstractLen : {1, 5},
      ActiveCount : {0, 1} ]

OptimizeNext ==
    \/ Add(OptimizeContexts)
    \/ Remove
    \/ OptimizeWindow

OptimizeSpec == WindowInit /\ [][OptimizeNext]_vars

\* The window under Compress.
CompressNext ==
    \/ Add(WindowContexts)
    \/ Remove
    \/ Compress

CompressSpec == WindowInit /\ [][CompressNext]_vars

\* One retrieval over any store, with any limit, that its caller may cancel.
RetrieveInit ==
    InitWith({[ MaxTokens |-> MaxBudget, MinL0Retention |-> 1 ]}, Stores, 0..MaxLimit)

RetrieveNext ==
    \/ Cancel
    \/ IterateCancelled
    \/ IterateVisited
    \/ Iterate
    \/ Finish

RetrieveSpec == RetrieveInit /\ [][RetrieveNext]_vars

\* A retrieval with an empty or a non-empty query, over a vector store
\* whose searches can fail.
TraceInit ==
    /\ session = NewSession
    /\ call = NoCall
    /\ tc = NewTieredContext
    /\ config = [ MaxTokens |-> MaxBudget, MinL0Retention |-> 1 ]
    /\ wcall = NoWCall
    /\ rs \in { [RetrieveStart(store, MaxLimit) EXCEPT !.Query = query] :
                    store \in Stores, query \in {"", "q"} }
    /\ rcall = NoRCall
    /\ reader = NoReader
    /\ OtherInit({MaxAppends}, {NewDedup(<<>>, [ num |-> 4, den |-> 5 ])})

TraceNext ==
    \/ RetrieveNext
    \/ IterateSearchFails

TraceSpec == TraceInit /\ [][TraceNext]_vars

\* Goroutines calling AGFS operations on one AGFS.
AGFSNext ==
    \/ AGFSCall
    \/ AGFSLock
    \/ AGFSUnlock
    \/ AGFSRLock
    \/ AGFSRUnlock
    \/ AGFSBegin
    \/ AGFSEnd
    \/ AGFSReturn

AGFSSpec == Init /\ [][AGFSNext]_vars

\* One queue manager, its producers and the workers of its processor.
QueueNext ==
    \/ CreateQueue
    \/ Enqueue
    \/ Dequeue
    \/ processLoop
    \/ Complete
    \/ Fail

QueueSpec == Init /\ [][QueueNext]_vars

\* One session whose AddMessage is called from several goroutines, next
\* to the calls that change its state.
AdderNext ==
    \/ AddMessageLoad
    \/ AddMessageStore
    \/ AddToolCall
    \/ Pause
    \/ Resume
    \/ Close

AdderSpec == Init /\ [][AdderNext]_vars

\* A tiered context that one goroutine fills and moves contexts in while
\* another runs FitInWindow passes over it.
MoveContexts == [ URI : {"viking://a"}, Tier : TierL0..TierL2, AbstractLen : {1} ]

MoveNext ==
    \/ Add(MoveContexts)
    \/ MoveToTier
    \/ FitGetL0
    \/ FitGetL1
    \/ FitGetL2

MoveSpec == Init /\ [][MoveNext]_vars

\* One auto-saver, with any calls of Start and Stop.
SaverNext ==
    \/ Start
    \/ TickSave
    \/ TickSaveDone
    \/ StopSignal
    \/ FinalSaveDone
    \/ CloseDone
    \/ Stop
    \/ StopReturn

SaverSpec == Init /\ [][SaverNext]_vars

\* One auto-extractor with any MaxMessages.
DefaultCore ==
    CoreInit({[ MaxTokens |-> MaxBudget, MinL0Retention |-> 1 ]}, {DefaultStore}, {0})

ExtractorInit ==
    /\ DefaultCore
    /\ OtherInit(0..MaxAppends, {NewDedup(<<>>, [ num |-> 4, den |-> 5 ])})

ExtractorNext ==
    \/ AutoExtractorAddMessage
    \/ IntervalElapses
    \/ Clear

ExtractorSpec == ExtractorInit /\ [][ExtractorNext]_vars

\* One Dedup call, on any list of memories and with either threshold.
DedupInputs ==
    { NewDedup(memories, threshold) :
        memories \in UNION { [1..n -> Memories] : n \in 0..MaxMemories },
        threshold \in Thresholds }

DedupInit ==
    /\ DefaultCore
    /\ OtherInit({MaxAppends}, DedupInputs)

DedupSpec == DedupInit /\ [][Dedup]_vars

\* The relation table of one directory under Link and Unlink calls.
LinkNext ==
    \/ Link
    \/ Unlink

LinkSpec == Init /\ [][LinkNext]_vars

\* One Copy call on any store.
CopyInit ==
    /\ DefaultCore
    /\ adders = NoAdders
    /\ agfs = NewAGFS
    /\ qm = NewQueueManager
    /\ saver = NewAutoSaver
    /\ ax = NewAutoExtractor(MaxAppends)
    /\ dd = NewDedup(<<>>, [ num |-> 4, den |-> 5 ])
    /\ rel = NewRelations
    /\ fs \in { NewStore(nodes) : nodes \in [StorePaths -> StoreNodes] }
    /\ MoreInit

CopySpec == CopyInit /\ [][Copy]_vars

\* The earlier parts after construction.
EarlierInit ==
    /\ DefaultCore
    /\ adders = NoAdders
    /\ agfs = NewAGFS
    /\ qm = NewQueueManager
    /\ saver = NewAutoSaver
    /\ ax = NewAutoExtractor(MaxAppends)
    /\ dd = NewDedup(<<>>, [ num |-> 4, den |-> 5 ])
    /\ rel = NewRelations
    /\ fs = NewStore(EmptyRoot)

\* A session that receives messages one at a time, with a compressor built
\* from the default configuration or from one near it.
CompressorInit ==
    /\ EarlierInit
    /\ conv = NewConversion(<<"/", "r">>, VikingPrefix)
    /\ tlock = NewTierLocks
    /\ bind = NewBinding(<<"new", "new", "new">>)
    /\ sc \in { NewSessionCompressor(threshold, keepRecent) :
                   threshold \in {0, DefaultThreshold - 1, DefaultThreshold + 1},
                   keepRecent \in {0, 1} }

CompressorSpec == CompressorInit /\ [][ReceiveMessage]_vars

\* One URI of a caller, converted by an AGFS with one of the root paths.
ConvertInit ==
    /\ EarlierInit
    /\ sc = NewSessionCompressor(0, 0)
    /\ conv \in { NewConversion(rootPath, uri) :
                     rootPath \in RootPaths, uri \in CallerURIs }
    /\ tlock = NewTierLocks
    /\ bind = NewBinding(<<"new", "new", "new">>)

ConvertSpec == ConvertInit /\ [][Convert]_vars

\* Goroutines that call the tiered context directly and through its window.
TierLockNext ==
    \/ TierCall
    \/ TierLock
    \/ TierUnlock
    \/ TierRLock
    \/ TierRUnlock
    \/ WindowLock
    \/ WindowUnlock
    \/ TierBegin
    \/ TierEnd
    \/ TierReturn

TierLockSpec == Init /\ [][TierLockNext]_vars

\* A WriteContext and a ReadContext on one URI, for every choice of levels
\* that the writer hands in.
BindingInit ==
    /\ EarlierInit
    /\ sc = NewSessionCompressor(0, 0)
    /\ conv = NewConversion(<<"/", "r">>, VikingPrefix)
    /\ tlock = NewTierLocks
    /\ bind \in { NewBinding(args) : args \in [1..Len(Levels) -> {"", "new"}] }

BindingNext ==
    \/ WriteContext
    \/ ReadContext

BindingSpec == BindingInit /\ [][BindingNext]_vars

(***************************************************************************)
(* Properties of the session lifecycle.                                    *)
(***************************************************************************)

\* C1: after Close has succeeded, every AddMessage on the session fails
\* with an invalid-state error and hands back no message.
C1_AddMessageOnClosedFails ==
    (call.op = "AddMessage" /\ call.pre = StateClosed)
        => (call.err = ErrInvalidState /\ ~call.msg)

\* C2: the state changes only by Pause from active to paused, by Resume
\* from paused to active and by Close from active or paused to closed;
\* a closed session stays closed whatever Pause, Resume or Close is called.
C2_Transitions ==
    [][ /\ session.State = StateClosed => session'.State = StateClosed
        /\ session'.State # session.State =>
              \/ /\ call'.op = "Pause"
                 /\ session.State = StateActive
                 /\ session'.State = StatePaused
              \/ /\ call'.op = "Resume"
                 /\ session.State = StatePaused
                 /\ session'.State = StateActive
              \/ /\ call'.op = "Close"
                 /\ session.State \in {StateActive, StatePaused}
                 /\ session'.State = StateClosed ]_vars

\* Pause, Resume or Close has been called on a closed session.
C2_Witness ==
    /\ call.op \in {"Pause", "Resume", "Close"}
    /\ call.pre = StateClosed
    /\ session.State = StateClosed

(***************************************************************************)
(* Properties of the tiered context and the window.                        *)
(***************************************************************************)
Holds(slice, uri) == \E i \in 1..Len(slice) : slice[i].URI = uri

Held(t, uri) == Holds(GetAll(t), uri)

\* The number of the tiers L0, L1, L2 whose list holds the URI.
TiersHolding(t, uri) ==
    Cardinality({ k \in {TierL0, TierL1, TierL2} :
        Holds(CASE k = TierL0 -> t.L0 [] k = TierL1 -> t.L1 [] OTHER -> t.L2, uri) })

\* C3: MoveToTier(uri, t) on a held URI returns true, leaves the context
\* in tier t and in no other tier, and keeps the number of held contexts.
C3_MoveToTierKeepsContext ==
    [][ ( /\ wcall'.op = "MoveToTier"
          /\ wcall'.ctx.Tier \in TierL0..TierL2
          /\ Held(tc, wcall'.ctx.URI) )
        => ( /\ wcall'.ok
             /\ Holds(CASE wcall'.ctx.Tier = TierL0 -> tc'.L0
                         [] wcall'.ctx.Tier = TierL1 -> tc'.L1
                         [] OTHER -> tc'.L2, wcall'.ctx.URI)
             /\ TiersHolding(tc', wcall'.ctx.URI) = 1
             /\ Count(tc') = Count(tc) ) ]_vars

\* C4: no URI is held in more than one of the tiers L0, L1, L2.
C4_OneTierPerURI ==
    \A uri \in URIs : TiersHolding(tc, uri) <= 1

\* The longest prefix of a result that stays within the budget.
RECURSIVE BudgetPrefix(_, _)
BudgetPrefix(result, budget) ==
    IF result = <<>> \/ CountTokens(Head(result).AbstractLen) > budget
        THEN <<>>
        ELSE <<Head(result)>> \o
             BudgetPrefix(Tail(result), budget - CountTokens(Head(result).AbstractLen))

L0Count(ctxs) == Cardinality({ i \in 1..Len(ctxs) : ctxs[i].Tier = TierL0 })

\* C5: the contexts FitInWindow returns total at most MaxTokens, unless
\* holding the result to the budget would leave fewer than MinL0Retention
\* L0 contexts in it.
C5_FitWithinBudget ==
    wcall.op = "FitInWindow" =>
        \/ SumTokens(wcall.result) <= config.MaxTokens
        \/ L0Count(BudgetPrefix(wcall.result, config.MaxTokens))
              < config.MinL0Retention

\* FitInWindow has gone over the budget to retain an L0 context.
C5_Witness ==
    /\ wcall.op = "FitInWindow"
    /\ SumTokens(wcall.result) > config.MaxTokens
    /\ Len(wcall.result) < Count(tc)

\* C6: AddContext returns an error and adds nothing whenever the current
\* usage plus the new context's tokens exceeds MaxTokens.
C6_AddContextRejects ==
    [][ ( /\ wcall'.op = "AddContext"
          /\ currentTokensUnsafe(tc) + CountTokens(wcall'.ctx.AbstractLen)
                > config.MaxTokens )
        => ( ~wcall'.ok /\ tc' = tc ) ]_vars

\* AddContext has rejected a context that alone would have fitted.
C6_Witness ==
    /\ wcall.op = "AddContext"
    /\ ~wcall.ok
    /\ CountTokens(wcall.ctx.AbstractLen) <= config.MaxTokens

(***************************************************************************)
(* Properties of the retrieval.                                            *)
(***************************************************************************)

\* C7: at every iteration the URI popped from the frontier is the
\* not-yet-visited frontier entry with the highest score.
C7_PopsHighestScore ==
    (rcall.popped # NoItem /\ rcall.popped.URI \notin rcall.seen)
        => \A i \in 1..Len(rcall.frontier) :
              rcall.frontier[i].URI \notin rcall.seen
                  => rcall.frontier[i].Score <= rcall.popped.Score

\* C8: the loop stops by convergence only when the set of the top-limit
\* candidates ranked by score has equalled the previous round's set, with
\* at least limit members, for MaxConvergenceRounds rounds in a row.
C8_ConvergedOnRankedTopK ==
    rs.converged => rcall.rankedRounds >= MaxConvergenceRounds

\* C9: at most limit results are returned, in non-increasing score order.
C9_BoundedAndSorted ==
    rcall.returned =>
        /\ Len(rcall.result) <= rs.Limit
        /\ \A i, j \in 1..Len(rcall.result) :
              i < j => rcall.result[i].Score >= rcall.result[j].Score

\* A retrieval has returned a full page of results of different scores,
\* the best of them collected after another one.
C9_Witness ==
    /\ rcall.returned
    /\ rcall.err = ErrNone
    /\ rs.Limit >= 2
    /\ Len(rcall.result) = rs.Limit
    /\ rcall.result[1].Score > rcall.result[2].Score
    /\ Cardinality(rs.visited) >= 2

\* C10: a retrieval cancelled in the middle of the traversal still returns
\* the candidates collected up to that point.
C10_CancelReturnsCollected ==
    (rcall.returned /\ rcall.err # ErrNone)
        => SeqURIs(rcall.result) = SeqURIs(rs.collected)

(***************************************************************************)
(* Properties of the AGFS lock.                                            *)
(***************************************************************************)

\* C11: every call into the store is made with a.mu held, exclusively for
\* a write and at least shared for a read, so that no two writes overlap
\* and no read overlaps a write.
C11_LockedAccess ==
    /\ \A t \in Goroutines :
          /\ agfs.g[t].access = "write" => agfs.writer = t
          /\ agfs.g[t].access = "read" => (t \in agfs.readers \/ agfs.writer = t)
    /\ \A t, u \in Goroutines :
          (t # u /\ agfs.g[t].access = "write") => agfs.g[u].access = "none"

(***************************************************************************)
(* Properties of the queues.                                               *)
(***************************************************************************)
Completed(queues, id) ==
    \E q \in DOMAIN queues : \E i \in 1..Len(queues[q]) :
        queues[q][i].ID = id /\ queues[q][i].Status = MessageStatusCompleted

\* C12: a Dequeue that returns a message takes exactly that one message,
\* pending until then, out of its queue and leaves every other message
\* alone; no message is handed out by more than one Dequeue call.
C12_DequeueHandsOutOnce ==
    [][ /\ \A id \in MessageIDs : qm'.handed[id] <= 1
        /\ (qm'.last.op = "Dequeue" /\ qm'.last.id # 0) =>
              LET q == qm'.last.queue IN
              /\ \E i \in 1..Len(qm.queues[q]) :
                    /\ qm.queues[q][i].ID = qm'.last.id
                    /\ qm.queues[q][i].Status = MessageStatusPending
                    /\ qm'.queues[q] = SubSeq(qm.queues[q], 1, i - 1)
                                         \o SubSeq(qm.queues[q], i + 1, Len(qm.queues[q]))
              /\ \A o \in DOMAIN qm.queues \ {q} : qm'.queues[o] = qm.queues[o]
              /\ qm'.handed[qm'.last.id] = qm.handed[qm'.last.id] + 1 ]_vars

\* Two workers hold two different messages of one queue at once.
C12_Witness ==
    /\ qm.last.op = "Dequeue"
    /\ qm.holding[1] # 0 /\ qm.holding[2] # 0
    /\ qm.holding[1] # qm.holding[2]

\* C13: an Enqueue of a message with a prerequisite that is not completed
\* fails with ErrDependencyNotMet and leaves the queues unchanged; a message
\* is accepted, and is handed out by Dequeue, only when every prerequisite
\* of it is completed.
C13_DependenciesCompleted ==
    [][ LET l == qm'.last IN
        /\ ( /\ l.op = "Enqueue"
             /\ l.queue \in DOMAIN qm.queues
             /\ \E d \in l.deps : ~Completed(qm.queues, d) )
           => (l.err = ErrDependencyNotMet /\ qm'.queues = qm.queues)
        /\ (l.op = "Enqueue" /\ qm'.queues # qm.queues)
           => \A d \in l.deps : Completed(qm.queues, d)
        /\ (l.op = "Dequeue" /\ l.id # 0)
           => \A d \in l.deps : Completed(qm.queues, d) ]_vars

\* An Enqueue has been refused for a prerequisite that a queue holds as
\* failed.
C13_Witness ==
    /\ qm.last.op = "Enqueue"
    /\ qm.last.err = ErrDependencyNotMet
    /\ \E msg \in AllMessages(qm.queues) :
          msg.ID \in qm.last.deps /\ msg.Status = MessageStatusFailed

(***************************************************************************)
(* Properties of concurrent use.                                           *)
(***************************************************************************)

\* C14: no AddMessage call loses its effect: once every call has returned,
\* the turn count equals the number of calls.
C14_NoLostAddMessage ==
    (\A t \in Goroutines : adders.g[t].pc = "idle")
        => session.TotalTurns = adders.returned

\* C15: a reader's pass over the tiers, with only successful MoveToTier
\* calls to L0..L2 running beside it, finds each moved URI that was held
\* in one tier in exactly one of the lists it reads.
C15_MoveAtomicForReader ==
    (Len(reader.seen) = 3 /\ ~reader.disturbed) =>
        \A uri \in reader.moved :
            TiersHolding(reader.before, uri) = 1 =>
                Cardinality({ k \in 1..3 : Holds(reader.seen[k], uri) }) = 1

(***************************************************************************)
(* Properties of the auto-saver.                                           *)
(***************************************************************************)

\* C16: Stop returns only after a final Save that began after Stop was
\* called has finished.
C16_StopAfterFinalSave ==
    \A t \in Goroutines :
        saver.stopper[t] = "returned" => saver.finalDone >= 1

\* A saver that has saved on a tick has been stopped, and Stop has returned.
C16_Witness ==
    /\ \E t \in Goroutines : saver.stopper[t] = "returned"
    /\ saver.ticks >= 1
    /\ ~saver.panicked

(***************************************************************************)
(* Properties of the auto-extractor.                                       *)
(***************************************************************************)

\* C17: the append that brings the count to exactly MaxMessages triggers
\* extraction; the append that leaves it one below MaxMessages, the
\* interval not having elapsed, does not.
C17_TriggersAtMaxMessages ==
    [][ (ax'.last.op = "AddMessage" /\ ax'.count = ax.count + 1) =>
          /\ ax'.count = ax.MaxMessages => ax'.last.triggered
          /\ (ax'.count = ax.MaxMessages - 1 /\ ~ax.elapsed)
                => ~ax'.last.triggered ]_vars

\* An append after an extraction has left the count one below MaxMessages
\* and has not triggered.
C17_Witness ==
    /\ ax.last.op = "AddMessage"
    /\ ~ax.last.triggered
    /\ ax.count >= 2
    /\ ax.count = ax.MaxMessages - 1

(***************************************************************************)
(* Properties of the deduper.                                              *)
(***************************************************************************)
InResult(i) == \E k \in 1..Len(dd.result) : dd.result[k] = i

\* C18: of two input memories whose similarity is at least the threshold,
\* at most one is in the output.
C18_OneRepresentativePerPair ==
    dd.done =>
        \A a, b \in 1..Len(dd.memories) :
            ( /\ a # b
              /\ Similar(dd.memories[a].Content, dd.memories[b].Content,
                         dd.threshold) )
            => ~(InResult(a) /\ InResult(b))

\* C19: a group of two or more that is cut to one member by the fallback
\* after an LLM error, or by the default for a response without a decision
\* keyword, keeps a member of the highest importance of the group.
C19_FallbackKeepsHighest ==
    dd.done =>
        \A g \in 1..Len(dd.groups) :
            LET group == dd.groups[g]
                kept  == { i \in 1..Len(group) : InResult(group[i]) }
            IN  ( /\ Len(group) >= 2
                  /\ dd.answers[g] \in {"error", "other"}
                  /\ Cardinality(kept) = 1 )
                => \A i \in kept : \A j \in 1..Len(group) :
                       dd.memories[group[j]].Importance
                           <= dd.memories[group[i]].Importance

(***************************************************************************)
(* Properties of the relation table.                                       *)
(***************************************************************************)

\* C20: every id that Link assigns is greater than every id it assigned
\* before in the directory, whatever Unlink has removed in between.
C20_LinkIDsFresh ==
    \A i, j \in 1..Len(rel.assigned) :
        i < j => rel.assigned[i] < rel.assigned[j]

\* C21: after an Unlink that succeeded, no entry of the table holds the
\* target and no entry is left with an empty list of URIs.
C21_UnlinkRemovesTarget ==
    (rel.last.op = "Unlink" /\ rel.last.err = ErrNone) =>
        \A i \in 1..Len(rel.table) :
            /\ Len(rel.table[i].URIs) > 0
            /\ \A j \in 1..Len(rel.table[i].URIs) :
                   rel.table[i].URIs[j] # rel.last.target

(***************************************************************************)
(* Properties of the window under token pressure.                          *)
(***************************************************************************)
Occurrences(ctxs, ctx) == Cardinality({ i \in 1..Len(ctxs) : ctxs[i] = ctx })

\* The contexts of the tiered context that a result leaves out.
LeftOut(t, result) ==
    { ctx \in { GetAll(t)[i] : i \in 1..Len(GetAll(t)) } :
        Occurrences(result, ctx) < Occurrences(GetAll(t), ctx) }

\* C23: the result of FitInWindow holds no context of a lower-priority
\* tier than a context it leaves out: no L2 context while an L1 or L0
\* context is left out, no L1 context while an L0 context is left out.
C23_EvictsLowestTierFirst ==
    wcall.op = "FitInWindow" =>
        \A out \in LeftOut(tc, wcall.result) :
            \A i \in 1..Len(wcall.result) : wcall.result[i].Tier <= out.Tier

\* C24: the contexts OptimizeWindow returns total at most MaxTokens, unless
\* holding the result to the budget would leave fewer than MinL0Retention
\* L0 contexts in it.
C24_OptimizeWithinBudget ==
    wcall.op = "OptimizeWindow" =>
        \/ SumTokens(wcall.result) <= config.MaxTokens
        \/ L0Count(BudgetPrefix(wcall.result, config.MaxTokens))
              < config.MinL0Retention

\* C25: a Compress call that follows a Compress call leaves every held
\* abstract as the first call left it.
C25_CompressIdempotent ==
    [][ (wcall.op = "Compress" /\ wcall'.op = "Compress") => tc' = tc ]_vars

\* C26: Compress replaces L1 abstracts only if, with every L2 abstract
\* replaced, the usage is still at or over CompressionRatio x MaxTokens.
C26_L1OnlyIfStillOver ==
    [][ (wcall'.op = "Compress" /\ tc'.L1 # tc.L1) =>
            ApproachingLimit([tc EXCEPT !.L2 = tc'.L2], config) ]_vars

(***************************************************************************)
(* Properties of the retrieval trace.                                      *)
(***************************************************************************)
EventCount(trace, type) ==
    Cardinality({ i \in 1..Len(trace) : trace[i].type = type })

\* C27: a retrieval with an empty query returns no results, and its trace
\* holds exactly one start event and exactly one summary event.
C27_EmptyQueryTrace ==
    (rs.Query = "" /\ rcall.returned /\ rcall.err = ErrNone) =>
        /\ rcall.result = <<>>
        /\ EventCount(rcall.trace, "search_directory_start") = 1
        /\ EventCount(rcall.trace, "search_summary") = 1

\* C28: every failed search of the vector store is reported by an event of
\* the trace.
C28_FailuresInTrace ==
    Cardinality({ i \in 1..Len(rcall.trace) : rcall.trace[i].error })
        >= rcall.failures

(***************************************************************************)
(* Properties of Copy.                                                     *)
(***************************************************************************)

\* C22: a Copy whose destination exists fails with ErrAlreadyExists and
\* leaves the destination as it was.
C22_CopyRefusesExisting ==
    (fs.last.op = "Copy" /\ fs.pre[fs.last.new].kind # "none") =>
        /\ fs.last.err = ErrAlreadyExists
        /\ fs.nodes[fs.last.new] = fs.pre[fs.last.new]

(***************************************************************************)
(* Further properties of the session life cycle.                           *)
(***************************************************************************)

\* C29: in every reachable state of a session ClosedAt is set if and only
\* if the state is closed.
C29_ClosedAtIffClosed ==
    (session.ClosedAt # "nil") <=> (session.State = StateClosed)

\* Resume has been called on a closed session, which is still closed with
\* ClosedAt set.
C29_Witness ==
    /\ session.State = StateClosed
    /\ session.ClosedAt = "set"
    /\ call.pre = StateClosed
    /\ call.op = "Resume"

\* C30: Pause on a session that is not active and Resume on a session that
\* is not paused return ErrInvalidState and leave the session as it was.
C30_InvalidStateRefused ==
    [][ /\ (call'.op = "Pause" /\ session.State # StateActive)
              => (call'.err = ErrInvalidState /\ session' = session)
        /\ (call'.op = "Resume" /\ session.State # StatePaused)
              => (call'.err = ErrInvalidState /\ session' = session) ]_vars

\* Pause has been refused on a closed session.
C30_Witness ==
    /\ call.op = "Pause"
    /\ call.pre = StateClosed
    /\ call.err = ErrInvalidState
    /\ session.State = StateClosed

\* C31: no step of a session lowers one of the counters TotalTurns,
\* TotalTokens, CompressionCount, ContextsUsed, SkillsUsed and
\* MemoriesExtracted.
C31_CountersNeverDecrease ==
    [][ /\ session'.TotalTurns >= session.TotalTurns
        /\ session'.TotalTokens >= session.TotalTokens
        /\ session'.CompressionCount >= session.CompressionCount
        /\ session'.ContextsUsed >= session.ContextsUsed
        /\ session'.SkillsUsed >= session.SkillsUsed
        /\ session'.MemoriesExtracted >= session.MemoriesExtracted ]_vars

(***************************************************************************)
(* Properties of the session compressor.                                   *)
(***************************************************************************)

\* C32: once a session with Threshold 50 and KeepRecent 5 has received 51
\* messages one at a time, compression has been triggered exactly once and
\* the CompressionCount of the session is 1.
C32_CompressedOnceAt51 ==
    (sc.Threshold = 50 /\ sc.KeepRecent = 5 /\ sc.messages = 51) =>
        /\ sc.triggered = 1
        /\ session.CompressionCount = 1

(***************************************************************************)
(* Properties of the URI conversions.                                      *)
(***************************************************************************)

\* C33: for every URI u, PathToURI(URIToPath(u)) is normalizeURI(u).
C33_RoundTripNormalizes ==
    conv.done => conv.back = conv.normalized

(***************************************************************************)
(* Properties of the tiered context's lock.                                *)
(***************************************************************************)

\* C34: a goroutine that changes one of the lists L0, L1 and L2, be it by an
\* append, a removal or the sort in place of OptimizeWindow, holds the write
\* lock tc.mu of the tiered context while it does.
C34_TierWritesLocked ==
    \A t \in Goroutines : tlock.g[t].access = "write" => tlock.writer = t

(***************************************************************************)
(* Further properties of the queues.                                       *)
(***************************************************************************)

\* C35: when a worker calls Complete or Fail with the id of the message that
\* Dequeue has handed to it, the call returns nil and the message is recorded
\* with the status completed or failed.
C35_HandedMessageSettles ==
    [][ \A w \in Goroutines :
          (qm.holding[w] # 0 /\ qm'.holding[w] = 0) =>
              /\ qm'.last.err = ErrNone
              /\ \E q \in DOMAIN qm'.queues : \E i \in 1..Len(qm'.queues[q]) :
                    /\ qm'.queues[q][i].ID = qm.holding[w]
                    /\ qm'.queues[q][i].Status =
                           IF qm'.last.op = "Complete" THEN MessageStatusCompleted
                                                       ELSE MessageStatusFailed ]_vars

(***************************************************************************)
(* Further properties of the auto-saver.                                   *)
(***************************************************************************)

\* C36: Stop returns in every state of the saver: no Stop call panics, and
\* a Stop call that waits for doneCh finds it closed or has a goroutine of
\* Start that is going to close it.
C36_StopReturns ==
    /\ ~saver.panicked
    /\ \A t \in Goroutines :
          saver.stopper[t] = "waiting" =>
              \/ saver.doneCh = "closed"
              \/ \E u \in Goroutines :
                    saver.g[u].pc \in {"select", "tickSave", "finalSave", "closeDone"}

(***************************************************************************)
(* Properties of the trajectory.                                           *)
(***************************************************************************)

\* C37: the child-to-parent edges that a retrieval records in its
\* trajectory have no cycle: GetAncestors returns for every URI.
C37_AncestorsTerminate ==
    \A uri \in RNodes : GetAncestors(rs.Parents, uri) # <<"...">>

(***************************************************************************)
(* Properties of the context files.                                        *)
(***************************************************************************)

\* C38: a ReadContext that runs beside a WriteContext of three levels on
\* the same URI returns the three levels as they were before the write or
\* the three levels of the write, never some of each.
C38_ReadContextAtomic ==
    (bind.read = Len(Levels) /\ \A l \in 1..Len(Levels) : bind.args[l] # "") =>
        \/ bind.ctx = [l \in 1..Len(Levels) |-> "old"]
        \/ bind.ctx = bind.args

(***************************************************************************)
(* Further properties of the deduper.                                      *)
(***************************************************************************)

\* C39: whatever the LLM answers, every similarity group of the input has a
\* member in the output of Dedup: no input memory is lost together with
\* its whole group.
C39_NoGroupLost ==
    dd.done =>
        \A g \in 1..Len(dd.groups) :
            \E i \in 1..Len(dd.groups[g]) : InResult(dd.groups[g][i])

(***************************************************************************)
(* Further properties of the auto-extractor.                               *)
(***************************************************************************)

\* C40: the append that follows an append which has extracted does not
\* extract again, when the interval has not elapsed since and MaxMessages
\* asks for more than one message.
C40_NoExtractionOnNextAppend ==
    [][ ( /\ ax.last.op = "AddMessage"
          /\ ax.last.triggered /\ ~ax.last.err
          /\ ~ax.elapsed
          /\ ax.MaxMessages > 1
          /\ ax'.count = ax.count + 1 )
        => ~ax'.last.triggered ]_vars

====
